---- MODULE Spec2Model ----
(***************************************************************************)
(* A model of the RAG chat client: the chunker (services/fileService.ts),  *)
(* the document store and its similarity search (the SQL schema, the       *)
(* VectorStore and db clients), batch ingestion and chat send (App.tsx).   *)
(*                                                                         *)
(* Text is kept as a run-length list: <<[c |-> "a", n |-> 3]>> is "aaa".   *)
(* Adjacent runs hold different characters and every run is non-empty, so  *)
(* two texts are equal exactly when their run lists are equal.             *)
(***************************************************************************)
EXTENDS Integers, Sequences, FiniteSets, TLC

VARIABLES
  \* ---- chunker harness (chunkText applied to drawn pages)
  ckPages,          \* the pages handed to chunkText
  ckFileName,       \* the file label handed to chunkText
  ckOut,            \* what chunkText returned
  ckPc              \* "ready" | "done"

VARIABLES
  \* ---- the database (supabase/migrations/20260202212000_initial_schema.sql)
  documents,        \* table documents: set of rows
  rag_chunks,       \* table rag_chunks: set of rows
  \* ---- React state and the locals of one handleFileUpload call (App.tsx)
  uiDocuments,      \* useState documents
  upPc,             \* "idle" | "parse" | "embed" | "meta" | "vectors" | "done"
  upFiles,          \* filesToUpload
  upScope,          \* scope
  upI,              \* the loop index i, 1-based
  upDocId,          \* docId of the file being ingested
  upRawChunks,      \* rawChunks
  upEmbedded,       \* chunksWithEmbeddings
  successes,
  failures,
  nextUuid,         \* uuidv4 never repeats: the next fresh document id
  \* ---- observations
  attempts,         \* per file of the batch: how often its try block was entered
  outcome,          \* per file of the batch: "none" | "success" | "failure"
  fileDocId,        \* per file of the batch: the docId its attempt drew (0: none)
  deleted,          \* ids of the documents deleted so far
  lastSearch        \* the vector search that has just returned, or NoSearch

VARIABLES
  \* ---- React state and the locals of one handleSendMessage call (App.tsx)
  supabaseUrl,      \* process.env.SUPABASE_URL is set
  chats,            \* useState chats: chat id -> [type, title, messages]
  currentChatId,    \* useState currentChatId
  isProcessing,     \* useState isProcessing
  sdPc,             \* "idle" | "saveUser" | "embed" | "search" | "summarize" | "fetch" |
                    \* "stream" | "saveModel"
  sdChatId,         \* currentChatId as the handler's closure holds it
  sdTarget,         \* targetChat
  sdUserMsg,        \* userMsg
  sdModelMsgId,     \* modelMsgId
  sdScope,          \* processRagRequest: scope
  sdQuery,          \* processRagRequest: queryEmbedding
  sdContext,        \* processRagRequest: contextChunks
  sdFullResponse,   \* processRagRequest: fullResponse
  sdFullText,       \* generateRagResponse: fullText
  sdStream,         \* the chunks the response body has yet to deliver
  sdHistory,        \* generateRagResponse: finalHistoryForModel
  sdMessage,        \* generateRagResponse: lastMessage.parts[0].text
  nextMsgId,        \* uuidv4 never repeats: the next fresh message id
  \* ---- observations
  sends,            \* handleSendMessage calls that went past their guards
  delivered,        \* the increments handed to the stream callback, in order
  sdResult,         \* how the last send ended: "none" | "ok" | "error"
  sdSummary,        \* the summarization request of this send:
                    \* "none" | "pending" | "ok" | "failed"
  sdHttpOk,         \* response.ok of the stream-chat response (never read by the code)
  titlePending,     \* per chat: generateChatTitle calls that have not settled
  titleCalls,       \* per chat: generateChatTitle calls issued so far
  dbChatTitles,     \* per chat: the title column of its row in table chats
  renames,          \* saveEditingChat calls so far
  searchCalls,      \* vectorStore.search calls of the current processRagRequest run
  sourcesCalls      \* onSourcesFound calls of the current processRagRequest run

VARIABLES
  \* ---- sources harness (the source list of processRagRequest applied to
  \*      drawn search results)
  srcResults,       \* searchResults
  srcOut,           \* sources
  srcPc             \* "ready" | "done"

VARIABLES
  \* ---- the voice input hook (hooks/useSpeechToText.ts) and its caller
  speechStatus,     \* useState status
  isFallbackMode,   \* useState isFallbackMode
  hasSpeechApi,     \* window.SpeechRecognition || window.webkitSpeechRecognition
  recognizers,      \* the SpeechRecognition objects constructed, in order
  recognitionRef,   \* recognitionRef.current: index into recognizers, 0: null
  captures,         \* the fallback captures started, in order
  mediaRecorderRef, \* mediaRecorderRef.current: index into captures, 0: null
  starts,           \* startListening calls so far
  lastCall,         \* the last call of the hook's user: "none" | "start" | "stop"
  \* ---- observations
  transcripts,      \* onTranscript calls, in order
  voiceErrors,      \* onError calls, in order
  voEvent           \* the handler that ran last, with what it was given

VARIABLES
  \* ---- the live session hook (hooks/useLiveSession.ts) under LiveMode
  live,             \* the hook's state, refs, media and calls in flight
  liveObs           \* observations: what the hook did and what ran last

ckVars == <<ckPages, ckFileName, ckOut, ckPc>>
srcVars == <<srcResults, srcOut, srcPc>>
voiceVars == <<speechStatus, isFallbackMode, hasSpeechApi, recognizers,
               recognitionRef, captures, mediaRecorderRef, starts, lastCall,
               transcripts, voiceErrors, voEvent>>
liveVars == <<live, liveObs>>
otherVars == <<srcVars, voiceVars, liveVars>>
chatVars == <<supabaseUrl, chats, currentChatId, isProcessing, sdPc, sdChatId,
              sdTarget, sdUserMsg, sdModelMsgId, sdScope, sdQuery, sdContext,
              sdFullResponse, sdFullText, sdStream, nextMsgId, sends, delivered,
              sdResult, sdHistory, sdMessage, sdSummary, sdHttpOk,
              titlePending, titleCalls, dbChatTitles, renames, searchCalls,
              sourcesCalls>>
obsVars == <<searchCalls, sourcesCalls>>
titleVars == <<titlePending, titleCalls, dbChatTitles, renames>>
genVars == <<sdHistory, sdMessage, sdSummary, sdHttpOk>>
dbVars == <<documents, rag_chunks>>
upVars == <<uiDocuments, upPc, upFiles, upScope, upI, upDocId, upRawChunks,
            upEmbedded, successes, failures, nextUuid, attempts, outcome, fileDocId>>
upLocals == <<upPc, upFiles, upScope, upI, upDocId, upRawChunks, upEmbedded,
              successes, failures, nextUuid, attempts, outcome, fileDocId>>
storeVars == <<documents, rag_chunks, uiDocuments, upPc, upFiles, upScope, upI,
               upDocId, upRawChunks, upEmbedded, successes, failures, nextUuid,
               attempts, outcome, fileDocId, deleted, lastSearch>>

vars == <<ckPages, ckFileName, ckOut, ckPc,
          documents, rag_chunks, uiDocuments, upPc, upFiles, upScope, upI,
          upDocId, upRawChunks, upEmbedded, successes, failures, nextUuid,
          attempts, outcome, fileDocId, deleted, lastSearch,
          supabaseUrl, chats, currentChatId, isProcessing, sdPc, sdChatId,
          sdTarget, sdUserMsg, sdModelMsgId, sdScope, sdQuery, sdContext,
          sdFullResponse, sdFullText, sdStream, nextMsgId, sends, delivered,
          sdResult, sdHistory, sdMessage, sdSummary, sdHttpOk,
          titlePending, titleCalls, dbChatTitles, renames, searchCalls,
          sourcesCalls,
          srcResults, srcOut, srcPc,
          speechStatus, isFallbackMode, hasSpeechApi, recognizers,
          recognitionRef, captures, mediaRecorderRef, starts, lastCall,
          transcripts, voiceErrors, voEvent,
          live, liveObs>>

-----------------------------------------------------------------------------
(* Text                                                                    *)

Min(a, b) == IF a < b THEN a ELSE b
Max(a, b) == IF a > b THEN a ELSE b

Space == " "

\* String.prototype.length
RECURSIVE TLen(_)
TLen(t) == IF t = <<>> THEN 0 ELSE Head(t).n + TLen(Tail(t))

\* Drop the first k characters (0 <= k).
RECURSIVE TDrop(_, _)
TDrop(t, k) ==
  IF t = <<>> \/ k <= 0 THEN t
  ELSE IF Head(t).n <= k THEN TDrop(Tail(t), k - Head(t).n)
  ELSE <<[c |-> Head(t).c, n |-> Head(t).n - k]>> \o Tail(t)

\* Keep the first k characters (0 <= k).
RECURSIVE TTake(_, _)
TTake(t, k) ==
  IF t = <<>> \/ k <= 0 THEN <<>>
  ELSE IF Head(t).n <= k THEN <<Head(t)>> \o TTake(Tail(t), k - Head(t).n)
  ELSE <<[c |-> Head(t).c, n |-> k]>>

\* String.prototype.slice(from, to) for 0 <= from: the characters at the
\* positions from .. to-1, both clamped to the length.
TSlice(t, from, to) == TTake(TDrop(t, from), Max(to - from, 0))

\* a + b
TConcat(a, b) ==
  IF a = <<>> THEN b
  ELSE IF b = <<>> THEN a
  ELSE IF a[Len(a)].c = Head(b).c
       THEN SubSeq(a, 1, Len(a) - 1)
              \o <<[c |-> Head(b).c, n |-> a[Len(a)].n + Head(b).n]>> \o Tail(b)
       ELSE a \o b

\* String.prototype.trim: whitespace runs at either end are dropped.
TTrim(t) ==
  LET a == IF t # <<>> /\ Head(t).c = Space THEN Tail(t) ELSE t
  IN  IF a # <<>> /\ a[Len(a)].c = Space THEN SubSeq(a, 1, Len(a) - 1) ELSE a

-----------------------------------------------------------------------------
(* services/fileService.ts                                                 *)

CHUNK_SIZE == 500
OVERLAP == 50

\* The filter of chunkText: the window is kept when this holds.
KeepsWindowFrom50(w) == TLen(w) >= 50
KeepsWindow(w) == TLen(w) > 50

\* The increment of the for loop: i += (CHUNK_SIZE - OVERLAP)
StepNoOverlap == CHUNK_SIZE
Step == CHUNK_SIZE - OVERLAP

\* const chunkText = text.slice(i, i + CHUNK_SIZE)
WindowTrimmed(text, i) == TTrim(TSlice(text, i, i + CHUNK_SIZE))
Window(text, i) == TSlice(text, i, i + CHUNK_SIZE)

\* The for loop of chunkText over one page, from offset i.
RECURSIVE ChunkPageFrom(_, _, _, _)
ChunkPageFrom(text, page, fileName, i) ==
  IF ~(i < TLen(text)) THEN <<>>
  ELSE
    LET w == Window(text, i)
        rest == ChunkPageFrom(text, page, fileName, i + Step)
    IN  IF KeepsWindow(w)
        THEN <<[text |-> w, sourceFileName |-> fileName, pageNumber |-> page]>> \o rest
        ELSE rest

\* pages.forEach(...) of chunkText, pages k .. Len(pages).
RECURSIVE ChunkPagesFrom(_, _, _)
ChunkPagesFrom(pages, fileName, k) ==
  IF k > Len(pages) THEN <<>>
  ELSE ChunkPageFrom(pages[k].text, pages[k].page, fileName, 0)
         \o ChunkPagesFrom(pages, fileName, k + 1)

chunkText(pages, fileName) == ChunkPagesFrom(pages, fileName, 1)

-----------------------------------------------------------------------------
(* Inputs of the chunker harness                                           *)

MaxRuns == 2
Chars == {Space, "a"}
RunLens == {1, 50, 51, 450, 500}

\* Every run list of exactly k runs whose adjacent runs differ in character.
RECURSIVE TextsOfRuns(_)
TextsOfRuns(k) ==
  IF k = 0 THEN {<<>>}
  ELSE {t \o <<[c |-> ch, n |-> len]>> :
          t \in {u \in TextsOfRuns(k - 1) : TRUE}, ch \in Chars, len \in RunLens}

WellFormed(t) == \A i \in 1..(Len(t) - 1) : t[i].c # t[i + 1].c

PageTexts ==
  {t \in UNION {TextsOfRuns(k) : k \in 0..MaxRuns} : WellFormed(t)}

SecondPageTexts == {t \in PageTexts : Len(t) <= 1}

\* parsePdf numbers the pages 1, 2, ... in order.
PageLists ==
  {<<[text |-> t, page |-> 1]>> : t \in PageTexts}
  \cup {<<[text |-> t, page |-> 1], [text |-> u, page |-> 2]>> :
          t \in PageTexts, u \in SecondPageTexts}

-----------------------------------------------------------------------------
(* Embeddings and similarity                                               *)
(*                                                                         *)
(* An embedding is <<>> (the empty array generateEmbedding returns for     *)
(* blank text) or <<k>>, a 768-dimensional vector in direction class k.    *)
(* The cosine similarity 1 - (a <=> b) of two vectors depends only on how  *)
(* far apart their classes are; it is kept in hundredths.                  *)

EMBEDDING_DIM == 768
MATCH_THRESHOLD == 50    \* match_threshold: 0.5, in hundredths
DEFAULT_TOP_K == 5

Embeddings == {<<0>>, <<1>>, <<3>>}
QueryEmbeddings == {<<0>>, <<1>>}

VectorDim(e) == IF e = <<>> THEN 0 ELSE EMBEDDING_DIM

Abs(x) == IF x < 0 THEN -x ELSE x

\* 1 - (rag_chunks.embedding <=> query_embedding), in hundredths
Similarity(e, q) ==
  CASE Abs(e[1] - q[1]) = 0 -> 100
    [] Abs(e[1] - q[1]) = 1 -> 82
    [] Abs(e[1] - q[1]) = 2 -> 50
    [] OTHER -> 40

-----------------------------------------------------------------------------
(* The database: tables documents and rag_chunks, function match_rag_chunks *)

Global == "global"
ChatIds == {"c1", "c2"}
Scopes == {Global} \cup ChatIds

DocIds(docs) == {d.id : d \in docs}
ChunksOf(chunks, docId) == {c \in chunks : c.document_id = docId}

\* rag_chunks join documents on rag_chunks.document_id = documents.id
Joined(docs, chunks) ==
  {j \in [chunk : chunks, doc : docs] : j.doc.id = j.chunk.document_id}

ScopeMatchesAny(d, filter_scope) == TRUE
ScopeMatches(d, filter_scope) == d.scope = Global \/ d.scope = filter_scope

AboveThresholdOrEqual(sim, match_threshold) == sim >= match_threshold
AboveThreshold(sim, match_threshold) == sim > match_threshold

\* The rows the where clause of match_rag_chunks keeps.
Matching(docs, chunks, query_embedding, match_threshold, filter_scope) ==
  {j \in Joined(docs, chunks) :
     /\ AboveThreshold(Similarity(j.chunk.embedding, query_embedding), match_threshold)
     /\ ScopeMatches(j.doc, filter_scope)}

Row(j, query_embedding) ==
  [id |-> j.chunk.id, text |-> j.chunk.text, file_name |-> j.doc.file_name,
   page_number |-> j.chunk.page_number,
   similarity |-> Similarity(j.chunk.embedding, query_embedding)]

\* order by similarity desc limit n: every list the database may return (rows
\* of equal similarity come in any order).
RECURSIVE OrderedLimit(_, _)
OrderedLimit(rows, n) ==
  IF n <= 0 \/ rows = {} THEN {<<>>}
  ELSE LET top == {r \in rows : \A o \in rows : o.similarity <= r.similarity}
       IN  UNION {{<<r>> \o s : s \in OrderedLimit(rows \ {r}, n - 1)} : r \in top}

RECURSIVE UnorderedLimit(_, _)
UnorderedLimit(rows, n) ==
  IF n <= 0 \/ rows = {} THEN {<<>>}
  ELSE UNION {{<<r>> \o s : s \in UnorderedLimit(rows \ {r}, n - 1)} : r \in rows}

LimitAll(rows, n) == OrderedLimit(rows, Cardinality(rows))
Limit(rows, n) == OrderedLimit(rows, n)

match_rag_chunks(docs, chunks, query_embedding, match_threshold, match_count, filter_scope) ==
  Limit({Row(j, query_embedding) :
           j \in Matching(docs, chunks, query_embedding, match_threshold, filter_scope)},
        match_count)

\* delete from documents where id = docId, with rag_chunks.document_id
\* references documents(id) on delete cascade
DeleteKeepsChunks(chunks, docId) == chunks
CascadeDelete(chunks, docId) == {c \in chunks : c.document_id # docId}

\* insert into rag_chunks: the foreign key needs the parent row, and the
\* column type vector(768) a vector of that dimension.
InsertAcceptsOrphans(docs, records) ==
  \A r \in records : VectorDim(r.embedding) = EMBEDDING_DIM
InsertAccepts(docs, records) ==
  \A r \in records : r.document_id \in DocIds(docs) /\ VectorDim(r.embedding) = EMBEDDING_DIM

-----------------------------------------------------------------------------
(* VectorStore (services/vectorStore.ts)                                   *)

NoTopK == 0     \* options.topK absent
TopKOptions == {NoTopK, 1, 2}
NoSearch == [called |-> FALSE]

\* VectorStore.search: the rows mapped to VectorSearchResult, per possible
\* answer of the database.
SearchResults(docs, chunks, queryEmbedding, filterScope, topK) ==
  LET k == IF topK = NoTopK THEN DEFAULT_TOP_K ELSE topK
      Map(rows) == [i \in 1..Len(rows) |->
                      [chunk |-> [id |-> rows[i].id, text |-> rows[i].text,
                                  embedding |-> <<>>,
                                  sourceFileName |-> rows[i].file_name,
                                  pageNumber |-> rows[i].page_number],
                       similarity |-> rows[i].similarity]]
  IN  {Map(rows) : rows \in match_rag_chunks(docs, chunks, queryEmbedding,
                                             MATCH_THRESHOLD, k, filterScope)}

\* processRagRequest: the unique sources of the results, first occurrence
\* kept: map to {title, page: pageNumber || 0}, then filter by findIndex.
NULL_PAGE == -1     \* page_number is null
PageOrZero(p) == IF p = NULL_PAGE \/ p = 0 THEN 0 ELSE p
SourceOfRawPage(r) == [title |-> r.chunk.sourceFileName, page |-> r.chunk.pageNumber]
SourceOf(r) == [title |-> r.chunk.sourceFileName, page |-> PageOrZero(r.chunk.pageNumber)]
Sources(searchResults) ==
  LET all == [i \in 1..Len(searchResults) |-> SourceOf(searchResults[i])]
      first(i) == \A k \in 1..(i - 1) : all[k] # all[i]
      RECURSIVE keep(_)
      keep(i) == IF i > Len(all) THEN <<>>
                 ELSE (IF first(i) THEN <<all[i]>> ELSE <<>>) \o keep(i + 1)
  IN  keep(1)

\* VectorStore.addChunks: the records it inserts.
ChunkRecords(embedded, documentId) ==
  {[id |-> embedded[j].id, document_id |-> documentId, text |-> embedded[j].text,
    embedding |-> embedded[j].embedding, page_number |-> embedded[j].pageNumber] :
     j \in 1..Len(embedded)}

-----------------------------------------------------------------------------
(* geminiService.generateEmbedding                                         *)

\* if (!text || !text.trim()) return [] : no request is made
IsBlank(text) == TTrim(text) = <<>>

-----------------------------------------------------------------------------
(* handleFileUpload (App.tsx): one batch, file by file                     *)

MaxFiles == 2      \* files of one batch
IngestEmbeddings == {<<1>>}   \* what the provider answers during ingestion
MaxUuids == 2      \* document ids drawn in one run of the model

Txt(ch, len) == <<[c |-> ch, n |-> len]>>

\* What parsePdf returns for the files a batch is drawn from: a page of 600
\* characters (two chunks), a blank page of 60 spaces (one chunk of blank
\* text) and a page of 30 characters (no chunk).
Files ==
  { [name |-> "a.pdf", pages |-> <<[text |-> Txt("a", 600), page |-> 1]>>],
    [name |-> "b.pdf", pages |-> <<[text |-> Txt(Space, 60), page |-> 1]>>],
    [name |-> "c.pdf", pages |-> <<[text |-> Txt("a", 30), page |-> 1]>>] }

Batches == UNION {[1..n -> Files] : n \in 1..MaxFiles}

IdleUpload ==
  /\ upPc = "idle"
  /\ upFiles = <<>>
  /\ upScope = Global
  /\ upI = 0
  /\ upDocId = 0
  /\ upRawChunks = <<>>
  /\ upEmbedded = <<>>
  /\ successes = 0
  /\ failures = 0
  /\ attempts = <<>>
  /\ outcome = <<>>
  /\ fileDocId = <<>>

IdleStore ==
  /\ documents = {}
  /\ rag_chunks = {}
  /\ uiDocuments = {}
  /\ nextUuid = 1
  /\ deleted = {}
  /\ lastSearch = NoSearch
  /\ IdleUpload

\* filesToUpload is not empty and the database is configured: the batch
\* begins with successes = failures = 0 and i = 0.
StartBatch(files, scope) ==
  /\ UNCHANGED ckVars
  /\ UNCHANGED chatVars
  /\ UNCHANGED otherVars
  /\ upPc = "idle"
  /\ nextUuid + Len(files) - 1 <= MaxUuids
  /\ upPc' = "parse"
  /\ upFiles' = files
  /\ upScope' = scope
  /\ upI' = 1
  /\ successes' = 0
  /\ failures' = 0
  /\ attempts' = [k \in 1..Len(files) |-> 0]
  /\ outcome' = [k \in 1..Len(files) |-> "none"]
  /\ fileDocId' = [k \in 1..Len(files) |-> 0]
  /\ lastSearch' = NoSearch
  /\ UNCHANGED <<documents, rag_chunks, uiDocuments, upDocId, upRawChunks,
                 upEmbedded, nextUuid, deleted>>

\* The loop's i++ and test: the next file, or the end of the batch.
NextPc == IF upI < Len(upFiles) THEN "parse" ELSE "done"

FileFailedAbortsBatch ==
  /\ failures' = failures + 1
  /\ outcome' = [outcome EXCEPT ![upI] = "failure"]
  /\ upPc' = "done"
  /\ UNCHANGED <<successes, upFiles, upScope, upI>>

\* catch (error) { failures++ } and on to the next file
FileFailed ==
  /\ failures' = failures + 1
  /\ outcome' = [outcome EXCEPT ![upI] = "failure"]
  /\ upPc' = NextPc
  /\ upI' = IF NextPc = "parse" THEN upI + 1 ELSE upI
  /\ UNCHANGED <<successes, upFiles, upScope>>

\* try { docId = uuidv4(); pages = await parsePdf(file); rawChunks = chunkText(...)
ParsePdf(ok) ==
  /\ UNCHANGED ckVars
  /\ UNCHANGED chatVars
  /\ UNCHANGED otherVars
  /\ upPc = "parse"
  /\ attempts' = [attempts EXCEPT ![upI] = @ + 1]
  /\ fileDocId' = [fileDocId EXCEPT ![upI] = nextUuid]
  /\ upDocId' = nextUuid
  /\ nextUuid' = nextUuid + 1
  /\ lastSearch' = NoSearch
  /\ upEmbedded' = <<>>
  /\ IF ok
     THEN LET raw == chunkText(upFiles[upI].pages, upFiles[upI].name)
          IN  /\ upRawChunks' = raw
              /\ upPc' = IF raw = <<>> THEN "meta" ELSE "embed"
              /\ UNCHANGED <<successes, failures, outcome, upI, upFiles, upScope>>
     ELSE /\ FileFailed
          /\ UNCHANGED upRawChunks
  /\ UNCHANGED <<documents, rag_chunks, uiDocuments, deleted>>

\* generateEmbedding threw: the request failed (no request is made for a
\* blank text).
EmbeddingFailedIgnored(blank, e) == FALSE
EmbeddingFailed(blank, e) == ~blank /\ e = <<>>

\* for (let j = 0; j < rawChunks.length; j++): j was the last round.
LastRoundIsFirst(j) == TRUE
LastRound(j) == j = Len(upRawChunks)

\* One round of the embedding loop: embedding = await generateEmbedding(text)
\* and the push. e is what the provider answers, <<>> when the request fails.
EmbedChunk(e) ==
  /\ UNCHANGED ckVars
  /\ UNCHANGED chatVars
  /\ UNCHANGED otherVars
  /\ upPc = "embed"
  /\ LET j == Len(upEmbedded) + 1
         raw == upRawChunks[j]
         blank == IsBlank(raw.text)
     IN  /\ blank => e = <<0>>    \* blank text: no request, one outcome
         /\ IF EmbeddingFailed(blank, e)
            THEN /\ FileFailed
                 /\ UNCHANGED upEmbedded
            ELSE /\ upEmbedded' = Append(upEmbedded,
                      [id |-> <<upDocId, j>>, text |-> raw.text,
                       sourceFileName |-> raw.sourceFileName,
                       pageNumber |-> raw.pageNumber,
                       embedding |-> IF blank THEN <<>> ELSE e])
                 /\ upPc' = IF LastRound(j) THEN "meta" ELSE "embed"
                 /\ UNCHANGED <<successes, failures, outcome, upI, upFiles, upScope>>
  /\ lastSearch' = NoSearch
  /\ UNCHANGED <<documents, rag_chunks, uiDocuments, upDocId, upRawChunks,
                 nextUuid, attempts, fileDocId, deleted>>

\* chunk_count of the document row
ChunkCountOfRaw == Len(upRawChunks) + 1
ChunkCount == Len(upEmbedded)

\* newDoc; await db.addDocument(newDoc); setDocuments(prev => [...prev, newDoc])
AddDocument(ok) ==
  /\ UNCHANGED ckVars
  /\ UNCHANGED chatVars
  /\ UNCHANGED otherVars
  /\ upPc = "meta"
  /\ LET newDoc == [id |-> upDocId, file_name |-> upFiles[upI].name,
                    scope |-> upScope, chunk_count |-> ChunkCount]
     IN  IF ok
         THEN /\ documents' = documents \cup {newDoc}
              /\ uiDocuments' = uiDocuments \cup {newDoc}
              /\ upPc' = "vectors"
              /\ UNCHANGED <<successes, failures, outcome, upI, upFiles, upScope>>
         ELSE /\ FileFailed
              /\ UNCHANGED <<documents, uiDocuments>>
  /\ lastSearch' = NoSearch
  /\ UNCHANGED <<rag_chunks, upDocId, upRawChunks, upEmbedded, nextUuid,
                 attempts, fileDocId, deleted>>

\* await vectorStore.addChunks(chunksWithEmbeddings, docId); successes++
AddChunks(ok) ==
  /\ UNCHANGED ckVars
  /\ UNCHANGED chatVars
  /\ UNCHANGED otherVars
  /\ upPc = "vectors"
  /\ LET records == ChunkRecords(upEmbedded, upDocId)
     IN  IF ok /\ InsertAccepts(documents, records)
         THEN /\ rag_chunks' = rag_chunks \cup records
              /\ successes' = successes + 1
              /\ outcome' = [outcome EXCEPT ![upI] = "success"]
              /\ upPc' = NextPc
              /\ upI' = IF NextPc = "parse" THEN upI + 1 ELSE upI
              /\ UNCHANGED <<failures, upFiles, upScope>>
         ELSE /\ FileFailed
              /\ UNCHANGED rag_chunks
  /\ lastSearch' = NoSearch
  /\ UNCHANGED <<documents, uiDocuments, upDocId, upRawChunks, upEmbedded,
                 nextUuid, attempts, fileDocId, deleted>>

\* The setTimeout that closes the upload modal: the handler's locals are gone.
FinishBatch ==
  /\ UNCHANGED ckVars
  /\ UNCHANGED chatVars
  /\ UNCHANGED otherVars
  /\ upPc = "done"
  /\ upPc' = "idle"
  /\ upFiles' = <<>>
  /\ upScope' = Global
  /\ upI' = 0
  /\ upDocId' = 0
  /\ upRawChunks' = <<>>
  /\ upEmbedded' = <<>>
  /\ successes' = 0
  /\ failures' = 0
  /\ attempts' = <<>>
  /\ outcome' = <<>>
  /\ fileDocId' = <<>>
  /\ lastSearch' = NoSearch
  /\ UNCHANGED <<documents, rag_chunks, uiDocuments, nextUuid, deleted>>

-----------------------------------------------------------------------------
(* handleDocumentDelete (App.tsx) with db.deleteDocument                   *)

DeleteDocument(docId, ok) ==
  /\ UNCHANGED ckVars
  /\ UNCHANGED chatVars
  /\ UNCHANGED otherVars
  /\ docId \in DocIds(uiDocuments)
  /\ IF ok
     THEN /\ documents' = {d \in documents : d.id # docId}
          /\ rag_chunks' = CascadeDelete(rag_chunks, docId)
          /\ uiDocuments' = {d \in uiDocuments : d.id # docId}
          /\ deleted' = deleted \cup {docId}
     ELSE UNCHANGED <<documents, rag_chunks, uiDocuments, deleted>>
  /\ lastSearch' = NoSearch
  /\ UNCHANGED upLocals

-----------------------------------------------------------------------------
(* A vector search against the store as it is                              *)

Search(queryEmbedding, filterScope, topK) ==
  /\ UNCHANGED ckVars
  /\ UNCHANGED chatVars
  /\ UNCHANGED otherVars
  /\ \E results \in SearchResults(documents, rag_chunks, queryEmbedding, filterScope, topK) :
       lastSearch' = [called |-> TRUE, queryEmbedding |-> queryEmbedding,
                      filterScope |-> filterScope, topK |-> topK, results |-> results]
  /\ UNCHANGED <<documents, rag_chunks, deleted>>
  /\ UNCHANGED upVars

NextStore ==
  \/ \E files \in Batches, scope \in Scopes : StartBatch(files, scope)
  \/ \E ok \in BOOLEAN : ParsePdf(ok)
  \/ \E e \in IngestEmbeddings \cup {<<>>} : EmbedChunk(e)
  \/ \E ok \in BOOLEAN : AddDocument(ok)
  \/ \E ok \in BOOLEAN : AddChunks(ok)
  \/ FinishBatch
  \/ \E docId \in 1..MaxUuids, ok \in BOOLEAN : DeleteDocument(docId, ok)
  \/ \E s \in Scopes : Search(<<0>>, s, 2)

-----------------------------------------------------------------------------
(* Chat state (App.tsx, types.ts)                                          *)

NoChat == "null"
NoMessage == [id |-> 0]
Undefined == "undefined"
NoSources == [defined |-> FALSE]

\* No chat exists and no send is running.
IdleSend ==
  /\ isProcessing = FALSE
  /\ sdPc = "idle"
  /\ sdChatId = NoChat
  /\ sdTarget = [id |-> NoChat]
  /\ sdUserMsg = NoMessage
  /\ sdModelMsgId = 0
  /\ sdScope = Global
  /\ sdQuery = <<>>
  /\ sdContext = <<>>
  /\ sdFullResponse = <<>>
  /\ sdFullText = <<>>
  /\ sdStream = <<>>
  /\ delivered = <<>>
  /\ sdResult = "none"
  /\ sdHistory = <<>>
  /\ sdMessage = <<>>
  /\ sdSummary = "none"
  /\ sdHttpOk = TRUE
  /\ searchCalls = 0
  /\ sourcesCalls = 0

\* The sources harness has nothing to do.
IdleSources ==
  /\ srcResults = <<>>
  /\ srcOut = <<>>
  /\ srcPc = "done"

NoEvent == [h |-> "none"]

\* The voice input hook as mounted, in a browser without the recognition API.
IdleVoice ==
  /\ speechStatus = "idle"
  /\ isFallbackMode = FALSE
  /\ hasSpeechApi = FALSE
  /\ recognizers = <<>>
  /\ recognitionRef = 0
  /\ captures = <<>>
  /\ mediaRecorderRef = 0
  /\ starts = 0
  /\ lastCall = "none"
  /\ transcripts = <<>>
  /\ voiceErrors = <<>>
  /\ voEvent = NoEvent

\* useLiveSession as mounted under a closed LiveMode, in a browser without
\* the recognition API: the mount effect has set isFallbackMode.
IdleLiveState(hasApi) ==
  [status |-> "idle", isFallbackMode |-> ~hasApi, recognitionRef |-> hasApi,
   recognition |-> "off", restartTimer |-> FALSE,
   screenStream |-> FALSE, audioStream |-> FALSE, screenLive |-> 0, micLive |-> 0,
   startPc |-> "idle", startFallback |-> FALSE,
   recorder |-> "none", silenceTimer |-> FALSE,
   vadLoop |-> FALSE, vadSpeaking |-> FALSE,
   turns |-> <<>>, utterances |-> <<>>, error |-> "none"]

NoLiveObs ==
  [open |-> FALSE, sessions |-> 0, commits |-> 0, requests |-> 0,
   messages |-> 0, spoken |-> 0, atStop |-> [messages |-> 0, spoken |-> 0],
   startFailed |-> FALSE, screenFailed |-> FALSE, stopEnd |-> "none",
   event |-> "none"]

IdleLive ==
  /\ live = IdleLiveState(FALSE)
  /\ liveObs = NoLiveObs

IdleOthers == IdleSources /\ IdleVoice /\ IdleLive

IdleChat ==
  /\ supabaseUrl = TRUE
  /\ chats = <<>>
  /\ currentChatId = NoChat
  /\ nextMsgId = 1
  /\ sends = 0
  /\ titlePending = [c \in {"c1", "c2"} |-> 0]
  /\ titleCalls = [c \in {"c1", "c2"} |-> 0]
  /\ dbChatTitles = [c \in {"c1", "c2"} |-> "New Chat"]
  /\ renames = 0
  /\ IdleSend

-----------------------------------------------------------------------------
(* The chunker harness: chunkText applied once to drawn pages              *)

IdleChunker ==
  /\ ckPages = <<>>
  /\ ckFileName = "a.pdf"
  /\ ckOut = <<>>
  /\ ckPc = "done"

InitChunker ==
  /\ IdleStore
  /\ IdleChat
  /\ IdleOthers
  /\ ckPages \in PageLists
  /\ ckFileName = "a.pdf"
  /\ ckOut = <<>>
  /\ ckPc = "ready"

RunChunkText ==
  /\ ckPc = "ready"
  /\ ckOut' = chunkText(ckPages, ckFileName)
  /\ ckPc' = "done"
  /\ UNCHANGED <<ckPages, ckFileName>>
  /\ UNCHANGED storeVars
  /\ UNCHANGED chatVars
  /\ UNCHANGED otherVars

NextChunker == RunChunkText

SpecChunker == InitChunker /\ [][NextChunker]_vars

-----------------------------------------------------------------------------
(* The store: ingestion, deletion and search interleaved                   *)

InitStore == IdleStore /\ IdleChunker /\ IdleChat /\ IdleOthers

SpecStore == InitStore /\ [][NextStore]_vars

-----------------------------------------------------------------------------
(* Search over drawn stores: every store of up to MaxDocs ingested files   *)

MaxDocs == 3

\* The embeddings the provider gave the chunks of one ingested file.
Profiles == {<<(<<1>>)>>, <<(<<3>>)>>, <<(<<0>>), (<<1>>)>>}
Absent == [present |-> FALSE]
DocChoices ==
  {Absent} \cup {[present |-> TRUE, scope |-> s, profile |-> p] : s \in Scopes, p \in Profiles}

\* A file of one page that chunkText cuts into n chunks.
FileOfChunks(name, n) ==
  [name |-> name,
   pages |-> <<[text |-> Txt("a", (n - 1) * (CHUNK_SIZE - OVERLAP) + 300), page |-> 1]>>]

DocName(id) == IF id % 2 = 1 THEN "a.pdf" ELSE "b.pdf"

\* What a successful ingestion of the file leaves in the two tables.
IngestedDoc(id, choice) ==
  [id |-> id, file_name |-> DocName(id), scope |-> choice.scope,
   chunk_count |-> Len(choice.profile)]

IngestedChunks(id, choice) ==
  LET raw == chunkText(FileOfChunks(DocName(id), Len(choice.profile)).pages, DocName(id))
      embedded == [j \in 1..Len(raw) |->
                     [id |-> <<id, j>>, text |-> raw[j].text,
                      sourceFileName |-> raw[j].sourceFileName,
                      pageNumber |-> raw[j].pageNumber,
                      embedding |-> choice.profile[j]]]
  IN  ChunkRecords(embedded, id)

StoreDocs(choices) ==
  {IngestedDoc(id, choices[id]) : id \in {i \in DOMAIN choices : choices[i].present}}

StoreChunks(choices) ==
  UNION {IngestedChunks(id, choices[id]) : id \in {i \in DOMAIN choices : choices[i].present}}

InitSearch ==
  /\ IdleChunker
  /\ IdleChat
  /\ IdleOthers
  /\ IdleUpload
  /\ \E choices \in [1..MaxDocs -> DocChoices] :
       /\ documents = StoreDocs(choices)
       /\ rag_chunks = StoreChunks(choices)
  /\ uiDocuments = documents
  /\ nextUuid = MaxDocs + 1
  /\ deleted = {}
  /\ lastSearch = NoSearch

\* One search per drawn store.
NextSearch ==
  \E q \in QueryEmbeddings, s \in Scopes, k \in TopKOptions :
    lastSearch = NoSearch /\ Search(q, s, k)

SpecSearch == InitSearch /\ [][NextSearch]_vars

-----------------------------------------------------------------------------
(* handleSendMessage and processRagRequest (App.tsx), generateRagResponse  *)
(* (services/geminiService.ts): one text message sent in the current chat  *)

MaxSends == 2

ChatTypes == {"global", "dedicated"}
Inputs == {Txt("q", 5)}

\* The texts "H", "He", "Hell", "Hello".
HelloPrefixes ==
  << Txt("H", 1),
     Txt("H", 1) \o Txt("e", 1),
     Txt("H", 1) \o Txt("e", 1) \o Txt("l", 2),
     Txt("H", 1) \o Txt("e", 1) \o Txt("l", 2) \o Txt("o", 1) >>

\* What the response body of stream-chat may deliver, chunk by chunk: the
\* proxy enqueues chunk.text() of every chunk of the provider's stream.
Streams ==
  { <<>>,
    <<Txt("H", 1), Txt("e", 1), Txt("l", 2), Txt("o", 1)>>,
    <<Txt("H", 1) \o Txt("e", 1), Txt("l", 2) \o Txt("o", 1)>>,
    HelloPrefixes }

\* What the proxy may answer to the summarization request: no text or a text.
SummaryTexts == {<<>>, Txt("s", 30)}

Truthy(x) == x = "true"

\* setChats(prev => prev.map(c => c.id === chatId ? {...c, messages: msgs} : c))
SetMessages(chs, chatId, msgs) ==
  [c \in DOMAIN chs |->
     IF c = chatId THEN [chs[c] EXCEPT !.messages = msgs] ELSE chs[c]]

\* The placeholder of the model's answer.
Placeholder(id) ==
  [id |-> id, role |-> "model", text |-> <<>>, isStreaming |-> "true",
   sources |-> NoSources]

\* const scope = chatType === ChatType.DEDICATED ? chatId : 'global'
ResolveScopeOwnChat(chatType, chatId) == chatId
ResolveScope(chatType, chatId) == IF chatType = "dedicated" THEN chatId ELSE Global

\* m.id === modelMsgId ? { ...m, text: chunkText } : m
SetTextAppending(m, chunk) == [m EXCEPT !.text = TConcat(m.text, chunk)]
SetText(m, chunk) == [m EXCEPT !.text = chunk]

\* c.messages.map(m => m.id === modelMsgId ? { ...m, text: chunkText } : m)
StreamInto(msgs, id, chunk) ==
  [k \in 1..Len(msgs) |-> IF msgs[k].id = id THEN SetText(msgs[k], chunk) ELSE msgs[k]]

\* c.messages.map(m => m.id === modelMsgId ? { ...m, sources: foundSources } : m)
SourcesInto(msgs, id, foundSources) ==
  [k \in 1..Len(msgs) |->
     IF msgs[k].id = id
     THEN [msgs[k] EXCEPT !.sources = [defined |-> TRUE, list |-> foundSources]]
     ELSE msgs[k]]

\* c.messages.map(m => m.id === modelMsgId ? finalModelMsg : m)
ReplaceMessage(msgs, id, finalModelMsg) ==
  [k \in 1..Len(msgs) |-> IF msgs[k].id = id THEN finalModelMsg ELSE msgs[k]]

\* currentChatId as the callbacks of handleSendMessage see it: the value of
\* the render in which the send was started.
ClosureChatIdLive == currentChatId
ClosureChatId == sdChatId

\* The filter of the catch block: c.messages.filter(m => m.isStreaming)
KeptOnError(m) == Truthy(m.isStreaming)

\* catch (error) { showToast; setChats(... filter ...) } finally { setIsProcessing(false) }
SendFailed ==
  /\ chats' = SetMessages(chats, ClosureChatId,
                          SelectSeq(chats[ClosureChatId].messages, KeptOnError))
  /\ isProcessing' = FALSE
  /\ sdPc' = "idle"
  /\ sdResult' = "error"

\* The placeholder is appended and processRagRequest awaits generateEmbedding.
AddPlaceholder(chs) ==
  SetMessages(chs, ClosureChatId,
              Append(chs[ClosureChatId].messages, Placeholder(sdModelMsgId)))

\* generateRagResponse (services/geminiService.ts) up to its first await.

MAX_CONTEXT_CHARS == 20000
RECENT_KEPT == 4
SUMMARY_PREFIX_LEN == 46
SUMMARY_UNAVAILABLE_LEN == 42

RECURSIVE Digits(_)
Digits(n) == IF n < 10 THEN 1 ELSE 1 + Digits(n \div 10)

\* The length of one entry of contextText:
\* `[Source: ${c.sourceFileName}, Page: ${c.pageNumber || 'N/A'}]\n${c.text}`
ContextEntryLen(c) ==
  9 + Len(c.sourceFileName) + 8
    + (IF PageOrZero(c.pageNumber) = 0 THEN 3 ELSE Digits(c.pageNumber))
    + 2 + TLen(c.text)

\* contextText.length: the entries joined by "\n\n---\n\n".
RECURSIVE ContextTextLen(_)
ContextTextLen(contextChunks) ==
  IF contextChunks = <<>> THEN 0
  ELSE IF Len(contextChunks) = 1 THEN ContextEntryLen(contextChunks[1])
  ELSE ContextEntryLen(Head(contextChunks)) + 7 + ContextTextLen(Tail(contextChunks))

\* history.reduce((acc, m) => acc + (m.text?.length || 0), 0)
RECURSIVE HistoryChars(_)
HistoryChars(history) ==
  IF history = <<>> THEN 0 ELSE TLen(Head(history).text) + HistoryChars(Tail(history))

\* totalChars > MAX_CONTEXT_CHARS
OverLimitFrom(totalChars) == totalChars >= MAX_CONTEXT_CHARS
OverLimit(totalChars) == totalChars > MAX_CONTEXT_CHARS

\* processedHistory.map(msg => ({role, parts: [{text: msg.text}]}))
ForModel(msgs) == [k \in 1..Len(msgs) |-> [role |-> msgs[k].role, text |-> msgs[k].text]]

\* history.slice(-4) and history.slice(0, -4)
RecentMessages(history) ==
  SubSeq(history, Max(Len(history) - RECENT_KEPT, 0) + 1, Len(history))
OlderMessages(history) == SubSeq(history, 1, Max(Len(history) - RECENT_KEPT, 0))

\* summaryResult.text || "Previous conversation summary unavailable."
SummaryTextOr(text) == IF text = <<>> THEN Txt("u", SUMMARY_UNAVAILABLE_LEN) ELSE text

\* The message `[System Note: Previous conversation summary]: ${summaryText}`
SummaryMessage(summaryText) ==
  [role |-> "model", text |-> TConcat(Txt("#", SUMMARY_PREFIX_LEN), summaryText)]

\* What summarizeHistory returns when its request has settled.
SummaryDropsRecent(history, ok, text) ==
  IF ok THEN <<SummaryMessage(SummaryTextOr(text))>> ELSE ForModel(history)
SummaryOrNothing(history, ok, text) ==
  IF ok
  THEN <<SummaryMessage(SummaryTextOr(text))>> \o ForModel(RecentMessages(history))
  ELSE <<>>
Summarized(history, ok, text) ==
  IF ok
  THEN <<SummaryMessage(SummaryTextOr(text))>> \o ForModel(RecentMessages(history))
  ELSE ForModel(history)

\* generateRagResponse([...history, userMsg], contextChunks, onChunk) from its
\* call to its first await: either summarizeHistory's request (the history is
\* over the limit and has messages older than the last four) or the fetch of
\* stream-chat.  userMsg.text is not empty (the guard of handleSendMessage).
BeginGenerate(contextChunks) ==
  LET history == sdTarget.messages \o <<sdUserMsg>>
      prior == SubSeq(history, 1, Len(history) - 1)
      totalChars == HistoryChars(history) + ContextTextLen(contextChunks)
  IN  /\ sdMessage' = history[Len(history)].text
      /\ sdHttpOk' = TRUE
      /\ IF OverLimit(totalChars) /\ OlderMessages(prior) # <<>>
         THEN /\ sdPc' = "summarize"
              /\ sdSummary' = "pending"
              /\ sdHistory' = <<>>
         ELSE /\ sdPc' = "fetch"
              /\ sdSummary' = "none"
              /\ sdHistory' = ForModel(prior)

\* setCurrentChatId(chat.id): the user picks a chat in the side bar.
SelectChat(c) ==
  /\ c \in DOMAIN chats
  /\ c # currentChatId
  /\ currentChatId' = c
  /\ UNCHANGED <<supabaseUrl, chats, isProcessing, sdPc, sdChatId, sdTarget,
                 sdUserMsg, sdModelMsgId, sdScope, sdQuery, sdContext,
                 sdFullResponse, sdFullText, sdStream, nextMsgId, sends,
                 delivered, sdResult>>
  /\ UNCHANGED genVars
  /\ UNCHANGED titleVars
  /\ UNCHANGED obsVars
  /\ UNCHANGED <<ckVars, storeVars>>
  /\ UNCHANGED otherVars

\* Auto-naming: targetChat.title === "New Chat" && targetChat.messages.length <= 1
AutoNames(targetChat) == targetChat.title = "New Chat" /\ Len(targetChat.messages) <= 1

\* What generateChatTitle resolves with: the trimmed text of the answer, or
\* "New Chat" when the answer is empty or the request failed.
GeneratedTitles == {"Trip plan", "New Chat"}

\* db.updateChatTitle(chatId, title): the update of the row when the
\* database is configured and the request succeeds.
UpdateChatTitle(titles, chatId, title, ok) ==
  IF supabaseUrl /\ ok THEN [titles EXCEPT ![chatId] = title] ELSE titles

\* generateChatTitle(input).then(newTitle => setChats(... title: newTitle ...));
\* db.updateChatTitle follows when the database is configured.
TitleReturns(c, newTitle, ok) ==
  /\ titlePending[c] > 0
  /\ titlePending' = [titlePending EXCEPT ![c] = @ - 1]
  /\ chats' = [chats EXCEPT ![c].title = newTitle]
  /\ dbChatTitles' = UpdateChatTitle(dbChatTitles, c, newTitle, ok)
  /\ UNCHANGED <<supabaseUrl, currentChatId, isProcessing, sdPc, sdChatId,
                 sdTarget, sdUserMsg, sdModelMsgId, sdScope, sdQuery, sdContext,
                 sdFullResponse, sdFullText, sdStream, nextMsgId, sends,
                 delivered, sdResult, titleCalls, renames>>
  /\ UNCHANGED genVars
  /\ UNCHANGED obsVars
  /\ UNCHANGED <<ckVars, storeVars>>
  /\ UNCHANGED otherVars

MaxRenames == 1

\* What the user types in the title field of the side bar.
EditTitles == {"Mine", " "}

\* editTitle.trim() || "Untitled Chat"
TrimTitle(editTitle) == IF editTitle = " " THEN "" ELSE editTitle
SavedTitle(editTitle) ==
  IF TrimTitle(editTitle) = "" THEN "Untitled Chat" ELSE TrimTitle(editTitle)

\* saveEditingChat: the title typed for chat c is shown at once and written
\* to the database when one is configured (a failure is only reported).
SaveEditingChat(c, editTitle, ok) ==
  /\ c \in DOMAIN chats
  /\ renames < MaxRenames
  /\ renames' = renames + 1
  /\ chats' = [chats EXCEPT ![c].title = SavedTitle(editTitle)]
  /\ dbChatTitles' = UpdateChatTitle(dbChatTitles, c, SavedTitle(editTitle), ok)
  /\ UNCHANGED <<supabaseUrl, currentChatId, isProcessing, sdPc, sdChatId,
                 sdTarget, sdUserMsg, sdModelMsgId, sdScope, sdQuery, sdContext,
                 sdFullResponse, sdFullText, sdStream, nextMsgId, sends,
                 delivered, sdResult, titlePending, titleCalls>>
  /\ UNCHANGED genVars
  /\ UNCHANGED obsVars
  /\ UNCHANGED <<ckVars, storeVars>>
  /\ UNCHANGED otherVars

\* handleSendMessage up to its first await: title generation is started for
\* a chat still named "New Chat", the user message is shown, then
\* either db.addMessages is awaited or, with no database, the placeholder is
\* added and the query embedding requested.
SendMessage(input) ==
  /\ sdPc = "idle"
  /\ currentChatId # NoChat
  /\ ~isProcessing
  /\ sends < MaxSends
  /\ LET userMsg == [id |-> nextMsgId, role |-> "user", text |-> input,
                     isStreaming |-> Undefined, sources |-> NoSources]
         shown == SetMessages(chats, currentChatId,
                              Append(chats[currentChatId].messages, userMsg))
     IN  /\ sdUserMsg' = userMsg
         /\ sdTarget' = [id |-> currentChatId, type |-> chats[currentChatId].type,
                         messages |-> chats[currentChatId].messages]
         /\ sdChatId' = currentChatId
         /\ sdModelMsgId' = nextMsgId + 1
         /\ nextMsgId' = nextMsgId + 2
         /\ IF supabaseUrl
            THEN chats' = shown /\ sdPc' = "saveUser"
            ELSE /\ chats' = SetMessages(shown, currentChatId,
                                        Append(shown[currentChatId].messages,
                                               Placeholder(nextMsgId + 1)))
                 /\ sdPc' = "embed"
  /\ isProcessing' = TRUE
  /\ sends' = sends + 1
  /\ delivered' = <<>>
  /\ sdResult' = "none"
  /\ sdScope' = Global
  /\ sdQuery' = <<>>
  /\ sdContext' = <<>>
  /\ sdFullResponse' = <<>>
  /\ sdFullText' = <<>>
  /\ sdStream' = <<>>
  /\ sdHistory' = <<>>
  /\ sdMessage' = <<>>
  /\ sdSummary' = "none"
  /\ sdHttpOk' = TRUE
  /\ searchCalls' = 0
  /\ sourcesCalls' = 0
  /\ IF AutoNames(chats[currentChatId])
     THEN /\ titlePending' = [titlePending EXCEPT ![currentChatId] = @ + 1]
          /\ titleCalls' = [titleCalls EXCEPT ![currentChatId] = @ + 1]
          /\ UNCHANGED <<dbChatTitles, renames>>
     ELSE UNCHANGED titleVars
  /\ UNCHANGED <<supabaseUrl, currentChatId>>
  /\ UNCHANGED <<ckVars, storeVars>>
  /\ UNCHANGED otherVars

\* db.addMessages(userMsg) has settled (its error is only logged); the
\* placeholder is added and the query embedding requested.
SaveUserMsg ==
  /\ sdPc = "saveUser"
  /\ chats' = AddPlaceholder(chats)
  /\ sdPc' = "embed"
  /\ UNCHANGED <<supabaseUrl, currentChatId, isProcessing, sdChatId, sdTarget,
                 sdUserMsg, sdModelMsgId, sdScope, sdQuery, sdContext,
                 sdFullResponse, sdFullText, sdStream, nextMsgId, sends,
                 delivered, sdResult>>
  /\ UNCHANGED genVars
  /\ UNCHANGED titleVars
  /\ UNCHANGED obsVars
  /\ UNCHANGED <<ckVars, storeVars>>
  /\ UNCHANGED otherVars

\* if (process.env.SUPABASE_URL)
SearchesStoreAlways == TRUE
SearchesStore == supabaseUrl

\* generateEmbedding(userMsg.text) settles: e is the vector, <<>> a failure.
\* The scope is resolved and the search requested or, with no database,
\* generateRagResponse called with no context.
EmbedQuery(e) ==
  /\ sdPc = "embed"
  /\ IF e = <<>>
     THEN /\ SendFailed
          /\ UNCHANGED <<sdScope, sdQuery>>
          /\ UNCHANGED genVars
     ELSE /\ sdQuery' = e
          /\ sdScope' = ResolveScope(sdTarget.type, sdTarget.id)
          /\ IF SearchesStore
             THEN sdPc' = "search" /\ UNCHANGED genVars
             ELSE BeginGenerate(<<>>)
          /\ UNCHANGED <<chats, isProcessing, sdResult>>
  /\ UNCHANGED <<supabaseUrl, currentChatId, sdChatId, sdTarget, sdUserMsg,
                 sdModelMsgId, sdContext, sdFullResponse, sdFullText, sdStream,
                 nextMsgId, sends, delivered>>
  /\ UNCHANGED titleVars
  /\ searchCalls' = IF e # <<>> /\ SearchesStore THEN searchCalls + 1 ELSE searchCalls
  /\ UNCHANGED sourcesCalls
  /\ UNCHANGED <<ckVars, storeVars>>
  /\ UNCHANGED otherVars

\* vectorStore.search(queryEmbedding, {filterScope: scope, topK: 5}) settles;
\* contextChunks and the sources are taken from the results, onSourcesFound
\* puts the sources on the model message and generateRagResponse is called.
VectorSearch(ok) ==
  /\ sdPc = "search"
  /\ IF ok
     THEN \E results \in SearchResults(documents, rag_chunks, sdQuery, sdScope, 5) :
            /\ sdContext' = [k \in 1..Len(results) |-> results[k].chunk]
            /\ chats' = SetMessages(chats, ClosureChatId,
                          SourcesInto(chats[ClosureChatId].messages, sdModelMsgId,
                                      Sources(results)))
            /\ BeginGenerate([k \in 1..Len(results) |-> results[k].chunk])
            /\ UNCHANGED <<isProcessing, sdResult>>
     ELSE /\ SendFailed
          /\ UNCHANGED sdContext
          /\ UNCHANGED genVars
  /\ UNCHANGED <<supabaseUrl, currentChatId, sdChatId, sdTarget, sdUserMsg,
                 sdModelMsgId, sdScope, sdQuery, sdFullResponse, sdFullText,
                 sdStream, nextMsgId, sends, delivered>>
  /\ UNCHANGED titleVars
  /\ sourcesCalls' = IF ok THEN sourcesCalls + 1 ELSE sourcesCalls
  /\ UNCHANGED searchCalls
  /\ UNCHANGED <<ckVars, storeVars>>
  /\ UNCHANGED otherVars

\* summarizeHistory: callGeminiProxy('generate-content') settles; ok is
\* whether it resolved, text the summary it carried.  The fetch of stream-chat
\* is requested with the history that results.
Summarize(ok, text) ==
  /\ sdPc = "summarize"
  /\ sdHistory' = Summarized(sdTarget.messages, ok, text)
  /\ sdSummary' = IF ok THEN "ok" ELSE "failed"
  /\ sdPc' = "fetch"
  /\ UNCHANGED <<supabaseUrl, chats, currentChatId, isProcessing, sdChatId,
                 sdTarget, sdUserMsg, sdModelMsgId, sdScope, sdQuery, sdContext,
                 sdFullResponse, sdFullText, sdStream, nextMsgId, sends,
                 delivered, sdResult, sdMessage, sdHttpOk>>
  /\ UNCHANGED titleVars
  /\ UNCHANGED obsVars
  /\ UNCHANGED <<ckVars, storeVars>>
  /\ UNCHANGED otherVars

\* What the proxy may answer to stream-chat: the stream with status 200, or
\* a JSON error body with status 500 (gemini-proxy.ts, catch).
ErrorBody == Txt("E", 30)
Responses ==
  {[ok |-> TRUE, body |-> stream] : stream \in Streams}
    \cup {[ok |-> FALSE, body |-> <<ErrorBody>>]}

\* generateRagResponse: the fetch of stream-chat settles; fulfilled is whether
\* it resolved, response what it resolved with.  Only response.body is looked
\* at: the body is read whatever the status.
FetchStream(fulfilled, response) ==
  /\ sdPc = "fetch"
  /\ IF fulfilled
     THEN /\ sdStream' = response.body
          /\ sdHttpOk' = response.ok
          /\ sdFullText' = <<>>
          /\ sdPc' = "stream"
          /\ UNCHANGED <<chats, isProcessing, sdResult>>
     ELSE /\ SendFailed
          /\ UNCHANGED <<sdStream, sdFullText, sdHttpOk>>
  /\ UNCHANGED <<sdHistory, sdMessage, sdSummary>>
  /\ UNCHANGED <<supabaseUrl, currentChatId, sdChatId, sdTarget, sdUserMsg,
                 sdModelMsgId, sdScope, sdQuery, sdContext, sdFullResponse,
                 nextMsgId, sends, delivered>>
  /\ UNCHANGED titleVars
  /\ UNCHANGED obsVars
  /\ UNCHANGED <<ckVars, storeVars>>
  /\ UNCHANGED otherVars

\* fullText += chunkText
AccumulateReplacing(fullText, chunk) == chunk
Accumulate(fullText, chunk) == TConcat(fullText, chunk)

\* reader.read() gives a chunk: fullText += chunkText; onChunk(fullText), which
\* sets fullResponse and the text of the model message.
ReadChunk ==
  /\ sdPc = "stream"
  /\ sdStream # <<>>
  /\ LET fullText == Accumulate(sdFullText, Head(sdStream))
     IN  /\ sdFullText' = fullText
         /\ sdFullResponse' = fullText
         /\ delivered' = Append(delivered, fullText)
         /\ chats' = SetMessages(chats, ClosureChatId,
                       StreamInto(chats[ClosureChatId].messages, sdModelMsgId, fullText))
  /\ sdStream' = Tail(sdStream)
  /\ UNCHANGED <<supabaseUrl, currentChatId, isProcessing, sdPc, sdChatId,
                 sdTarget, sdUserMsg, sdModelMsgId, sdScope, sdQuery, sdContext,
                 nextMsgId, sends, sdResult>>
  /\ UNCHANGED genVars
  /\ UNCHANGED titleVars
  /\ UNCHANGED obsVars
  /\ UNCHANGED <<ckVars, storeVars>>
  /\ UNCHANGED otherVars

\* reader.read() rejects: the connection broke.
ReadFails ==
  /\ sdPc = "stream"
  /\ SendFailed
  /\ UNCHANGED <<supabaseUrl, currentChatId, sdChatId, sdTarget, sdUserMsg,
                 sdModelMsgId, sdScope, sdQuery, sdContext, sdFullResponse,
                 sdFullText, sdStream, nextMsgId, sends, delivered>>
  /\ UNCHANGED genVars
  /\ UNCHANGED titleVars
  /\ UNCHANGED obsVars
  /\ UNCHANGED <<ckVars, storeVars>>
  /\ UNCHANGED otherVars

\* setIsProcessing(false); setProcessingStatus('')
SendDone ==
  /\ isProcessing' = FALSE
  /\ sdPc' = "idle"
  /\ sdResult' = "ok"

\* reader.read() reports done: processRagRequest returns fullResponse and the
\* model message is replaced by finalModelMsg.
StreamDone ==
  /\ sdPc = "stream"
  /\ sdStream = <<>>
  /\ LET finalModelMsg == [id |-> sdModelMsgId, role |-> "model",
                           text |-> sdFullResponse, isStreaming |-> "false",
                           sources |-> NoSources]
     IN  chats' = SetMessages(chats, ClosureChatId,
                    ReplaceMessage(chats[ClosureChatId].messages, sdModelMsgId, finalModelMsg))
  /\ IF supabaseUrl
     THEN sdPc' = "saveModel" /\ UNCHANGED <<isProcessing, sdResult>>
     ELSE SendDone
  /\ UNCHANGED <<supabaseUrl, currentChatId, sdChatId, sdTarget, sdUserMsg,
                 sdModelMsgId, sdScope, sdQuery, sdContext, sdFullResponse,
                 sdFullText, sdStream, nextMsgId, sends, delivered>>
  /\ UNCHANGED genVars
  /\ UNCHANGED titleVars
  /\ UNCHANGED obsVars
  /\ UNCHANGED <<ckVars, storeVars>>
  /\ UNCHANGED otherVars

\* db.addMessages(finalModelMsg) has settled (its error is only logged).
SaveModelMsg ==
  /\ sdPc = "saveModel"
  /\ SendDone
  /\ UNCHANGED <<supabaseUrl, chats, currentChatId, sdChatId, sdTarget,
                 sdUserMsg, sdModelMsgId, sdScope, sdQuery, sdContext,
                 sdFullResponse, sdFullText, sdStream, nextMsgId, sends,
                 delivered>>
  /\ UNCHANGED genVars
  /\ UNCHANGED titleVars
  /\ UNCHANGED obsVars
  /\ UNCHANGED <<ckVars, storeVars>>
  /\ UNCHANGED otherVars

\* The stores the chats run against: nothing ingested, or a global file, a
\* file of chat c1 and a file of chat c2.
ChatStores ==
  { <<Absent, Absent, Absent>>,
    <<[present |-> TRUE, scope |-> Global, profile |-> <<(<<1>>)>>],
      [present |-> TRUE, scope |-> "c1", profile |-> <<(<<1>>)>>],
      [present |-> TRUE, scope |-> "c2", profile |-> <<(<<0>>), (<<1>>)>>]>> }

\* handleCreateChat: a chat starts with the greeting of its type.
GreetingId(c) == IF c = "c1" THEN 1 ELSE 2
NewChat(c, type) ==
  [type |-> type, title |-> "New Chat",
   messages |-> <<[id |-> GreetingId(c), role |-> "model",
                   text |-> IF type = "global" THEN Txt("g", 5) ELSE Txt("d", 5),
                   isStreaming |-> Undefined, sources |-> NoSources]>>]

\* A message as db.getChats loads it.
Loaded(id, role, ch, len) ==
  [id |-> id, role |-> role, text |-> Txt(ch, len),
   isStreaming |-> Undefined, sources |-> NoSources]

\* The conversations db.getChats may load for a chat besides a new one: the
\* greeting and one exchange with a long answer; the greeting and two
\* exchanges, short, or with an answer that brings the total with a query of
\* 5 characters to exactly 20000, or above.
LoadedHistories ==
  { <<Loaded(3, "user", "a", 6), Loaded(4, "model", "b", 20000)>>,
    <<Loaded(3, "user", "a", 6), Loaded(4, "model", "b", 9),
      Loaded(5, "user", "c", 7), Loaded(6, "model", "d", 8)>>,
    <<Loaded(3, "user", "a", 6), Loaded(4, "model", "b", 19969),
      Loaded(5, "user", "c", 7), Loaded(6, "model", "d", 8)>>,
    <<Loaded(3, "user", "a", 6), Loaded(4, "model", "b", 19990),
      Loaded(5, "user", "c", 7), Loaded(6, "model", "d", 8)>> }

LoadedChat(c, type, history) ==
  [NewChat(c, type) EXCEPT !.messages = @ \o history]

\* The chats of the session: both new, or chat c1 loaded with a conversation.
InitChats ==
  \/ /\ \E types \in [ChatIds -> ChatTypes] :
          chats = [c \in ChatIds |-> NewChat(c, types[c])]
     /\ currentChatId \in ChatIds
     /\ nextMsgId = 3
  \/ /\ \E history \in LoadedHistories :
          chats = [c \in ChatIds |->
                     IF c = "c1" THEN LoadedChat(c, "dedicated", history)
                     ELSE NewChat(c, "global")]
     /\ currentChatId = "c1"
     /\ nextMsgId = 7

InitChat ==
  /\ IdleChunker
  /\ IdleOthers
  /\ IdleUpload
  /\ \E choices \in ChatStores :
       /\ documents = StoreDocs(choices)
       /\ rag_chunks = StoreChunks(choices)
  /\ uiDocuments = documents
  /\ nextUuid = 4
  /\ deleted = {}
  /\ lastSearch = NoSearch
  /\ supabaseUrl \in BOOLEAN
  /\ InitChats
  /\ sends = 0
  /\ titlePending = [c \in {"c1", "c2"} |-> 0]
  /\ titleCalls = [c \in {"c1", "c2"} |-> 0]
  /\ dbChatTitles = [c \in {"c1", "c2"} |-> "New Chat"]
  /\ renames = 0
  /\ IdleSend

NextChat ==
  \/ \E c \in ChatIds : SelectChat(c)
  \/ \E input \in Inputs : SendMessage(input)
  \/ SaveUserMsg
  \/ \E e \in QueryEmbeddings \cup {<<>>} : EmbedQuery(e)
  \/ \E ok \in BOOLEAN : VectorSearch(ok)
  \/ \E ok \in BOOLEAN, text \in SummaryTexts : Summarize(ok, text)
  \/ \E fulfilled \in BOOLEAN, response \in Responses : FetchStream(fulfilled, response)
  \/ ReadChunk
  \/ ReadFails
  \/ StreamDone
  \/ SaveModelMsg

SpecChat == InitChat /\ [][NextChat]_vars

\* Sends with the title requests settling: two new chats, c2 created with a
\* title of the user's.
InitTitle ==
  /\ IdleChunker
  /\ IdleOthers
  /\ IdleStore
  /\ supabaseUrl \in BOOLEAN
  /\ chats = [c \in ChatIds |->
               IF c = "c1" THEN NewChat(c, "global")
               ELSE [NewChat(c, "dedicated") EXCEPT !.title = "Work"]]
  /\ currentChatId \in ChatIds
  /\ nextMsgId = 3
  /\ sends = 0
  /\ titlePending = [c \in ChatIds |-> 0]
  /\ titleCalls = [c \in ChatIds |-> 0]
  /\ dbChatTitles = [c \in ChatIds |-> chats[c].title]
  /\ renames = 0
  /\ IdleSend

\* The conversations stay far below the limit of summarizeHistory, whose
\* request is never made here.
NextTitle ==
  \/ \E c \in ChatIds : SelectChat(c)
  \/ \E input \in Inputs : SendMessage(input)
  \/ \E c \in ChatIds, newTitle \in GeneratedTitles, ok \in BOOLEAN :
       TitleReturns(c, newTitle, ok)
  \/ \E c \in ChatIds, editTitle \in EditTitles, ok \in BOOLEAN :
       SaveEditingChat(c, editTitle, ok)
  \/ SaveUserMsg
  \/ \E e \in QueryEmbeddings \cup {<<>>} : EmbedQuery(e)
  \/ \E ok \in BOOLEAN : VectorSearch(ok)
  \/ \E fulfilled \in BOOLEAN, response \in Responses : FetchStream(fulfilled, response)
  \/ ReadChunk
  \/ ReadFails
  \/ StreamDone
  \/ SaveModelMsg

SpecTitle == InitTitle /\ [][NextTitle]_vars

-----------------------------------------------------------------------------
(* The sources harness: the source list of processRagRequest over drawn     *)
(* search results                                                          *)

MaxResults == 3
SourceTitles == {"a.pdf", "b.pdf"}
SourcePages == {NULL_PAGE, 0, 1, 2}

\* A search result as VectorStore.search maps it.
ResultOf(title, page) ==
  [chunk |-> [id |-> <<1, 1>>, text |-> Txt("a", 60), embedding |-> <<>>,
              sourceFileName |-> title, pageNumber |-> page],
   similarity |-> 82]

ResultLists ==
  UNION {[1..n -> {ResultOf(t, pg) : t \in SourceTitles, pg \in SourcePages}] :
           n \in 0..MaxResults}

InitSources ==
  /\ IdleChunker
  /\ IdleStore
  /\ IdleChat
  /\ IdleVoice
  /\ IdleLive
  /\ srcResults \in ResultLists
  /\ srcOut = <<>>
  /\ srcPc = "ready"

\* const sources = searchResults.map(...).filter(...)
ExtractSources ==
  /\ srcPc = "ready"
  /\ srcOut' = Sources(srcResults)
  /\ srcPc' = "done"
  /\ UNCHANGED srcResults
  /\ UNCHANGED <<ckVars, storeVars, chatVars, voiceVars, liveVars>>

NextSources == ExtractSources

SpecSources == InitSources /\ [][NextSources]_vars

-----------------------------------------------------------------------------
(* hooks/useSpeechToText.ts, driven by toggleVoiceInput (App.tsx)          *)

MaxStarts == 2        \* startListening calls
MaxTranscripts == 1   \* results the native recognizer delivers

\* event.error of SpeechRecognition's error event
RecognizerErrors == {"network", "not-allowed", "service-not-allowed", "no-speech"}
\* What transcribeAudio may resolve with.
TranscribedTexts == {"", "hello"}

\* event.error === 'network' || ... 'not-allowed' || ... 'service-not-allowed'
FallbackErrorsNetworkOnly == {"network"}
FallbackErrors == {"network", "not-allowed", "service-not-allowed"}

\* !isFallbackMode && (window.SpeechRecognition || window.webkitSpeechRecognition)
UsesNativeWhateverTheFlag == hasSpeechApi
UsesNative == ~isFallbackMode /\ hasSpeechApi

\* const isListening = speechStatus === 'listening' || speechStatus === 'recording'
isListening == speechStatus \in {"listening", "recording"}

\* startFallbackRecording up to getUserMedia(...): the request is pending.
startFallbackRecording ==
  /\ speechStatus' = "recording"
  /\ captures' = Append(captures, [state |-> "asking", trackLive |-> FALSE])

\* A recognizer as startListening constructs it; onend closes over the status
\* of the render in which startListening was created.
NewRecognizer(state) == [state |-> state, started |-> FALSE, closureStatus |-> speechStatus]

\* toggleVoiceInput while not listening: startListening().  browser is what
\* the browser does with the recognizer: "ok", or a throw of the constructor
\* or of start().
startListening(browser) ==
  /\ ~isListening
  /\ starts < MaxStarts
  /\ starts' = starts + 1
  /\ lastCall' = "start"
  /\ IF UsesNative
     THEN /\ voEvent' = [h |-> "startListening", native |-> browser = "ok",
                         latched |-> isFallbackMode]
          /\ speechStatus' = "listening"
          /\ UNCHANGED captures
          /\ IF browser = "ok"
             THEN /\ recognizers' = Append(recognizers, NewRecognizer("running"))
                  /\ recognitionRef' = Len(recognizers) + 1
                  /\ UNCHANGED isFallbackMode
             ELSE /\ isFallbackMode' = TRUE
                  /\ IF browser = "startThrows"
                     THEN /\ recognizers' = Append(recognizers, NewRecognizer("unstarted"))
                          /\ recognitionRef' = Len(recognizers) + 1
                     ELSE UNCHANGED <<recognizers, recognitionRef>>
     ELSE /\ browser = "ok"
          /\ voEvent' = [h |-> "startListening", native |-> FALSE,
                         latched |-> isFallbackMode]
          /\ startFallbackRecording
          /\ UNCHANGED <<isFallbackMode, recognizers, recognitionRef>>
  /\ UNCHANGED <<hasSpeechApi, mediaRecorderRef, transcripts, voiceErrors>>
  /\ UNCHANGED <<ckVars, storeVars, chatVars, srcVars, liveVars>>

\* toggleVoiceInput while listening: stopListening().
stopListening ==
  /\ isListening
  /\ lastCall' = "stop"
  /\ voEvent' = [h |-> "stopListening",
                 recorder |-> IF mediaRecorderRef # 0
                                 /\ captures[mediaRecorderRef].state = "recording"
                              THEN mediaRecorderRef ELSE 0]
  /\ recognizers' =
       IF recognitionRef # 0 /\ recognizers[recognitionRef].state = "running"
       THEN [recognizers EXCEPT ![recognitionRef].state = "stopping"]
       ELSE recognizers
  /\ IF mediaRecorderRef # 0 /\ captures[mediaRecorderRef].state = "recording"
     THEN /\ captures' = [captures EXCEPT ![mediaRecorderRef].state = "stopping"]
          /\ UNCHANGED speechStatus
     ELSE /\ speechStatus' = "idle"
          /\ UNCHANGED captures
  /\ UNCHANGED <<isFallbackMode, hasSpeechApi, recognitionRef, mediaRecorderRef,
                 starts, transcripts, voiceErrors>>
  /\ UNCHANGED <<ckVars, storeVars, chatVars, srcVars, liveVars>>

\* recognition.onstart
RecognizerStarted(i) ==
  /\ i \in 1..Len(recognizers)
  /\ recognizers[i].state = "running"
  /\ ~recognizers[i].started
  /\ recognizers' = [recognizers EXCEPT ![i].started = TRUE]
  /\ speechStatus' = "listening"
  /\ voEvent' = [h |-> "onstart"]
  /\ UNCHANGED <<isFallbackMode, hasSpeechApi, recognitionRef, captures,
                 mediaRecorderRef, starts, lastCall, transcripts, voiceErrors>>
  /\ UNCHANGED <<ckVars, storeVars, chatVars, srcVars, liveVars>>

\* recognition.onresult: onTranscript(current)
RecognizerResult(i, current) ==
  /\ i \in 1..Len(recognizers)
  /\ recognizers[i].state \in {"running", "stopping"}
  /\ recognizers[i].started
  /\ Len(transcripts) < MaxTranscripts
  /\ transcripts' = Append(transcripts, current)
  /\ voEvent' = [h |-> "onresult"]
  /\ UNCHANGED <<speechStatus, isFallbackMode, hasSpeechApi, recognizers,
                 recognitionRef, captures, mediaRecorderRef, starts, lastCall, voiceErrors>>
  /\ UNCHANGED <<ckVars, storeVars, chatVars, srcVars, liveVars>>

\* recognition.onerror: the three errors of FallbackErrors latch the
\* fallback, stop the recognizer and start the fallback capture; any other
\* error is reported.  The recognizer's end event follows.
RecognizerError(i, error) ==
  /\ i \in 1..Len(recognizers)
  /\ recognizers[i].state = "running"
  /\ recognizers' = [recognizers EXCEPT ![i].state = "errored"]
  /\ voEvent' = [h |-> "onerror", error |-> error]
  /\ IF error \in FallbackErrors
     THEN /\ isFallbackMode' = TRUE
          /\ startFallbackRecording
          /\ UNCHANGED voiceErrors
     ELSE /\ speechStatus' = "error"
          /\ voiceErrors' = Append(voiceErrors, error)
          /\ UNCHANGED <<isFallbackMode, captures>>
  /\ UNCHANGED <<hasSpeechApi, recognitionRef, mediaRecorderRef, starts, lastCall, transcripts>>
  /\ UNCHANGED <<ckVars, storeVars, chatVars, srcVars, liveVars>>

\* recognition.onend: if (status === 'listening') setStatus('idle'), status
\* being the one the handler closed over.
RecognizerEnded(i) ==
  /\ i \in 1..Len(recognizers)
  /\ recognizers[i].state \in {"running", "stopping", "errored"}
  /\ recognizers' = [recognizers EXCEPT ![i].state = "ended"]
  /\ speechStatus' = IF recognizers[i].closureStatus = "listening" THEN "idle"
                     ELSE speechStatus
  /\ voEvent' = [h |-> "onend"]
  /\ UNCHANGED <<isFallbackMode, hasSpeechApi, recognitionRef, captures,
                 mediaRecorderRef, starts, lastCall, transcripts, voiceErrors>>
  /\ UNCHANGED <<ckVars, storeVars, chatVars, srcVars, liveVars>>

\* getUserMedia resolves: the recorder is created, kept in mediaRecorderRef
\* and started.
MicGranted(j) ==
  /\ j \in 1..Len(captures)
  /\ captures[j].state = "asking"
  /\ captures' = [captures EXCEPT ![j] = [state |-> "recording", trackLive |-> TRUE]]
  /\ mediaRecorderRef' = j
  /\ voEvent' = [h |-> "getUserMedia.then"]
  /\ UNCHANGED <<speechStatus, isFallbackMode, hasSpeechApi, recognizers,
                 recognitionRef, starts, lastCall, transcripts, voiceErrors>>
  /\ UNCHANGED <<ckVars, storeVars, chatVars, srcVars, liveVars>>

\* getUserMedia rejects.
MicDenied(j) ==
  /\ j \in 1..Len(captures)
  /\ captures[j].state = "asking"
  /\ captures' = [captures EXCEPT ![j].state = "denied"]
  /\ speechStatus' = "error"
  /\ voiceErrors' = Append(voiceErrors, "Microphone access denied")
  /\ voEvent' = [h |-> "getUserMedia.catch"]
  /\ UNCHANGED <<isFallbackMode, hasSpeechApi, recognizers, recognitionRef,
                 mediaRecorderRef, starts, lastCall, transcripts>>
  /\ UNCHANGED <<ckVars, storeVars, chatVars, srcVars, liveVars>>

\* recorder.onstop up to await transcribeAudio(blob): the tracks are stopped.
RecorderStopped(j) ==
  /\ j \in 1..Len(captures)
  /\ captures[j].state = "stopping"
  /\ captures' = [captures EXCEPT ![j] = [state |-> "transcribing", trackLive |-> FALSE]]
  /\ speechStatus' = "processing"
  /\ voEvent' = [h |-> "onstop"]
  /\ UNCHANGED <<isFallbackMode, hasSpeechApi, recognizers, recognitionRef,
                 mediaRecorderRef, starts, lastCall, transcripts, voiceErrors>>
  /\ UNCHANGED <<ckVars, storeVars, chatVars, srcVars, liveVars>>

\* if (text) onTranscript(text)
DeliveredNever(ts, text) == ts
Delivered(ts, text) == IF text # "" THEN Append(ts, text) ELSE ts

\* transcribeAudio settles: ok is whether it resolved, text what it carried.
Transcribed(j, ok, text) ==
  /\ j \in 1..Len(captures)
  /\ captures[j].state = "transcribing"
  /\ captures' = [captures EXCEPT ![j].state = "done"]
  /\ voEvent' = [h |-> "transcribed", ok |-> ok, text |-> text]
  /\ IF ok
     THEN /\ transcripts' = Delivered(transcripts, text)
          /\ speechStatus' = "idle"
          /\ UNCHANGED voiceErrors
     ELSE /\ speechStatus' = "error"
          /\ voiceErrors' = Append(voiceErrors, "Transcription failed")
          /\ UNCHANGED transcripts
  /\ UNCHANGED <<isFallbackMode, hasSpeechApi, recognizers, recognitionRef,
                 mediaRecorderRef, starts, lastCall>>
  /\ UNCHANGED <<ckVars, storeVars, chatVars, srcVars, liveVars>>

InitVoice ==
  /\ IdleChunker
  /\ IdleStore
  /\ IdleChat
  /\ IdleSources
  /\ IdleLive
  /\ speechStatus = "idle"
  /\ isFallbackMode = FALSE
  /\ hasSpeechApi \in BOOLEAN
  /\ recognizers = <<>>
  /\ recognitionRef = 0
  /\ captures = <<>>
  /\ mediaRecorderRef = 0
  /\ starts = 0
  /\ lastCall = "none"
  /\ transcripts = <<>>
  /\ voiceErrors = <<>>
  /\ voEvent = NoEvent

NextVoice ==
  \/ \E browser \in {"ok", "ctorThrows", "startThrows"} : startListening(browser)
  \/ stopListening
  \/ \E i \in 1..MaxStarts : RecognizerStarted(i)
  \/ \E i \in 1..MaxStarts : RecognizerResult(i, "hi")
  \/ \E i \in 1..MaxStarts, error \in RecognizerErrors : RecognizerError(i, error)
  \/ \E i \in 1..MaxStarts : RecognizerEnded(i)
  \/ \E j \in 1..MaxStarts : MicGranted(j)
  \/ \E j \in 1..MaxStarts : MicDenied(j)
  \/ \E j \in 1..MaxStarts : RecorderStopped(j)
  \/ \E j \in 1..MaxStarts, ok \in BOOLEAN, text \in TranscribedTexts :
       Transcribed(j, ok, text)

SpecVoice == InitVoice /\ [][NextVoice]_vars

\* What the browser and the network do without the user: every pending
\* recognizer event, permission answer, recorder stop and transcription
\* request is eventually delivered.  A recognizer with continuous = false
\* ends by itself.  The calls of the user are under no obligation.
VoiceCallbacks ==
  \/ \E i \in 1..MaxStarts : RecognizerStarted(i)
  \/ \E i \in 1..MaxStarts : RecognizerEnded(i)
  \/ \E j \in 1..MaxStarts : MicGranted(j)
  \/ \E j \in 1..MaxStarts : RecorderStopped(j)
  \/ \E j \in 1..MaxStarts, ok \in BOOLEAN, text \in TranscribedTexts :
       Transcribed(j, ok, text)

SpecVoiceFair == SpecVoice /\ WF_vars(VoiceCallbacks)

-----------------------------------------------------------------------------
(* hooks/useLiveSession.ts with useMediaStream, driven by LiveMode, whose   *)
(* effect on isOpen calls startSession on opening and stopSession on       *)
(* closing.  statusRef is taken to equal status: its effect runs before the *)
(* next event.                                                             *)

MaxSessions == 2      \* startSession calls
MaxCommits == 2       \* handleTurnComplete calls

\* event.error of the recognizer's error event
LiveRecognizerErrors == {"network", "no-speech"}
\* event.error === 'network' || ... 'service-not-allowed' || ... 'aborted'
LiveFallbackErrors == {"network", "service-not-allowed", "aborted"}

\* What the handlers created by the mount effect, and checkVolume, see of the
\* hook's state: the values of the first render, whatever the state is now.
MountClosure == [screenStream |-> FALSE, audioStream |-> FALSE, isFallbackMode |-> FALSE]

\* recognition.start() inside try/catch: it throws unless the recognizer is off.
StartRecognition(l) ==
  IF l.recognition = "off" THEN [l EXCEPT !.recognition = "on"] ELSE l

\* recognition.stop() or abort(): the end event is to come.
EndRecognition(l) ==
  IF l.recognition = "on" THEN [l EXCEPT !.recognition = "ending"] ELSE l

\* if (!isFallbackMode && recognitionRef.current) recognitionRef.current.start()
StartIfNative(l, fallback) ==
  IF ~fallback /\ l.recognitionRef THEN StartRecognition(l) ELSE l

\* mediaRecorderRef.current.stop() unless inactive
StopRecorder(l) ==
  IF l.recorder = "recording" THEN [l EXCEPT !.recorder = "inactive"] ELSE l

\* startRecording as seen by a closure c
StartRecording(l, c) ==
  IF l.status = "recording" THEN l
  ELSE LET streamToRecord == c.screenStream \/ (c.audioStream /\ c.isFallbackMode)
       IN  [l EXCEPT !.status = "recording",
                     !.recorder = IF streamToRecord THEN "recording" ELSE @,
                     !.silenceTimer = IF ~c.isFallbackMode THEN TRUE ELSE @]

\* handleTurnComplete up to its first await (the wait of 500 ms)
HandleTurnComplete(l) ==
  LET stopped == StopRecorder(l)
      quiet == IF stopped.recognitionRef /\ ~stopped.isFallbackMode
               THEN EndRecognition(stopped) ELSE stopped
  IN  [quiet EXCEPT !.status = "processing",
                    !.silenceTimer = FALSE,
                    !.turns = Append(@, [pc |-> "wait", fallback |-> l.isFallbackMode])]

\* speakResponse
SpeakResponse(l, fallback) ==
  [l EXCEPT !.status = "speaking",
            !.utterances = Append(@, [state |-> "queued", fallback |-> fallback])]

\* The catch block of handleTurnComplete
GenerationFailedStays(l, fallback) == l
GenerationFailed(l, fallback) ==
  StartIfNative([l EXCEPT !.status = "listening"], fallback)

\* stopScreenShare and stopAudio: the tracks of the stream held in state
StopScreenShare(l) ==
  IF l.screenStream
  THEN [l EXCEPT !.screenStream = FALSE, !.screenLive = @ - 1] ELSE l
StopAudio(l) ==
  IF l.audioStream
  THEN [l EXCEPT !.audioStream = FALSE, !.micLive = @ - 1] ELSE l

\* window.speechSynthesis.cancel(): a cancelled utterance gets an error
\* event, not an end event.
CancelSpeech(l) ==
  [l EXCEPT !.utterances =
     [k \in 1..Len(@) |-> IF @[k].state = "queued"
                          THEN [@[k] EXCEPT !.state = "cancelled"] ELSE @[k]]]

\* stopSession
StopSession(l) ==
  LET released == StopAudio(StopScreenShare(l))
      aborted == IF released.recognitionRef THEN EndRecognition(released) ELSE released
  IN  CancelSpeech([StopRecorder(aborted) EXCEPT
                      !.silenceTimer = FALSE, !.vadLoop = FALSE,
                      !.vadSpeaking = FALSE, !.status = "idle"])

\* The effect on [isFallbackMode, audioStream, status]: startAudioAnalysisVAD
\* unless the analysis is already running.
Effects(l) ==
  IF l.isFallbackMode /\ l.audioStream /\ l.status = "listening" /\ ~l.vadLoop
  THEN [l EXCEPT !.vadLoop = TRUE, !.vadSpeaking = FALSE]
  ELSE l

\* setError of useMediaStream: null, or the message of the screen share or
\* of the microphone.
SetError(l, message) == [l EXCEPT !.error = message]

\* startScreenShare and startAudio up to their await: setError(null)
BeginAcquisition(l) == SetError(l, "none")

LiveOthersUnchanged == UNCHANGED <<ckVars, storeVars, chatVars, srcVars, voiceVars>>

\* LiveMode opens: startSession up to await startScreenShare().
OpenLive ==
  /\ ~liveObs.open
  /\ liveObs.sessions < MaxSessions
  /\ live.startPc = "idle"
  /\ live' = BeginAcquisition([live EXCEPT !.startPc = "screen",
                                            !.startFallback = live.isFallbackMode])
  /\ liveObs' = [liveObs EXCEPT !.open = TRUE, !.sessions = @ + 1,
                                !.startFailed = FALSE, !.screenFailed = FALSE,
                                !.event = "startSession"]
  /\ LiveOthersUnchanged

\* LiveMode closes: stopSession.
CloseLive ==
  /\ liveObs.open
  /\ live' = Effects(StopSession(live))
  /\ liveObs' = [liveObs EXCEPT !.open = FALSE, !.event = "stopSession",
                                !.stopEnd = IF live.recognitionRef /\ live.recognition = "on"
                                            THEN "pending" ELSE @,
                                !.atStop = [messages |-> liveObs.messages,
                                            spoken |-> liveObs.spoken]]
  /\ LiveOthersUnchanged

\* getDisplayMedia settles inside startScreenShare, which catches a
\* rejection; startSession goes on to await startAudio().
ScreenSettles(ok) ==
  /\ live.startPc = "screen"
  /\ LET settled == [live EXCEPT !.startPc = "audio",
                                 !.screenStream = IF ok THEN TRUE ELSE @,
                                 !.screenLive = IF ok THEN @ + 1 ELSE @]
         reported == IF ok THEN settled ELSE SetError(settled, "screen")
     IN  live' = Effects(BeginAcquisition(reported))
  /\ liveObs' = [liveObs EXCEPT !.startFailed = @ \/ ~ok, !.screenFailed = ~ok,
                                !.event = "startScreenShare"]
  /\ LiveOthersUnchanged

\* getUserMedia settles inside startAudio, which catches a rejection;
\* startSession sets listening and starts the recognizer.
AudioSettles(ok) ==
  /\ live.startPc = "audio"
  /\ LET got == [live EXCEPT !.startPc = "idle",
                             !.audioStream = IF ok THEN TRUE ELSE @,
                             !.micLive = IF ok THEN @ + 1 ELSE @,
                             !.status = "listening"]
         reported == IF ok THEN got ELSE SetError(got, "audio")
     IN  live' = Effects(StartIfNative(reported, live.startFallback))
  /\ liveObs' = [liveObs EXCEPT !.startFailed = @ \/ ~ok, !.event = "startSession.done"]
  /\ LiveOthersUnchanged

\* The video track's onended: the user stopped sharing in the browser.
ScreenShareEnded ==
  /\ live.screenStream
  /\ live' = Effects(StopScreenShare(live))
  /\ liveObs' = [liveObs EXCEPT !.event = "onended"]
  /\ LiveOthersUnchanged

\* recognition.onresult with a non-empty transcript
RecognitionResult ==
  /\ live.recognition = "on"
  /\ live.status \in {"listening", "recording"}
  /\ live' = Effects(IF live.status = "listening"
                     THEN StartRecording(live, MountClosure)
                     ELSE [live EXCEPT !.silenceTimer = TRUE])
  /\ liveObs' = [liveObs EXCEPT !.event = "onresult"]
  /\ LiveOthersUnchanged

\* recognition.onerror; the handler sees isFallbackMode as it was at mount.
RecognitionError(error) ==
  /\ live.recognition = "on"
  /\ live' = Effects(IF error \in LiveFallbackErrors /\ ~MountClosure.isFallbackMode
                     THEN EndRecognition([live EXCEPT !.isFallbackMode = TRUE])
                     ELSE EndRecognition(live))
  /\ liveObs' = [liveObs EXCEPT !.event = "onerror"]
  /\ LiveOthersUnchanged

\* recognition.onend: the restart is scheduled while listening or recording.
RecognitionEnded ==
  /\ live.recognition \in {"on", "ending"}
  /\ live' = [live EXCEPT !.recognition = "off",
                          !.restartTimer = IF ~MountClosure.isFallbackMode
                                              /\ live.status \in {"listening", "recording"}
                                           THEN TRUE ELSE @]
  /\ liveObs' = [liveObs EXCEPT
                   !.event = "onend",
                   !.stopEnd = IF @ = "pending"
                               THEN IF live.status \in {"listening", "recording"}
                                    THEN "timer" ELSE "none"
                               ELSE @]
  /\ LiveOthersUnchanged

\* The 100 ms timer of onend
RestartTimerFires ==
  /\ live.restartTimer
  /\ live' = IF ~MountClosure.isFallbackMode /\ live.status \in {"listening", "recording"}
             THEN StartRecognition([live EXCEPT !.restartTimer = FALSE])
             ELSE [live EXCEPT !.restartTimer = FALSE]
  /\ liveObs' = [liveObs EXCEPT
                   !.event = "restart",
                   !.stopEnd = IF @ = "timer"
                               THEN IF live'.recognition = "on" /\ live.recognition = "off"
                                    THEN "restarted" ELSE "none"
                               ELSE @]
  /\ LiveOthersUnchanged

\* checkVolume finds the volume above the threshold for the first time
\* since the last silence.
VadSpeech ==
  /\ live.vadLoop
  /\ ~live.vadSpeaking
  /\ live' = Effects(IF live.status = "listening"
                     THEN [StartRecording(live, MountClosure) EXCEPT !.vadSpeaking = TRUE]
                     ELSE [live EXCEPT !.vadSpeaking = TRUE])
  /\ liveObs' = [liveObs EXCEPT !.event = "checkVolume.speech"]
  /\ LiveOthersUnchanged

\* checkVolume finds 1500 ms of silence after speech: commitTurnRef.current()
VadSilence ==
  /\ live.vadLoop
  /\ live.vadSpeaking
  /\ liveObs.commits < MaxCommits
  /\ live' = Effects(HandleTurnComplete([live EXCEPT !.vadSpeaking = FALSE]))
  /\ liveObs' = [liveObs EXCEPT !.commits = @ + 1, !.event = "checkVolume.silence"]
  /\ LiveOthersUnchanged

\* The silence timer of 2000 ms fires: commitTurnRef.current()
SilenceTimerFires ==
  /\ live.silenceTimer
  /\ liveObs.commits < MaxCommits
  /\ live' = Effects(HandleTurnComplete(live))
  /\ liveObs' = [liveObs EXCEPT !.commits = @ + 1, !.event = "silenceTimer"]
  /\ LiveOthersUnchanged

\* handleTurnComplete after the wait: in fallback mode transcribeAudio is
\* awaited, otherwise generateMultimodalResponse is.
TurnWaited(i) ==
  /\ i \in 1..Len(live.turns)
  /\ live.turns[i].pc = "wait"
  /\ live' = [live EXCEPT !.turns[i].pc = IF live.turns[i].fallback
                                          THEN "transcribe" ELSE "generate"]
  /\ liveObs' = [liveObs EXCEPT !.requests = IF live.turns[i].fallback THEN @ ELSE @ + 1,
                                !.event = "turn.waited"]
  /\ LiveOthersUnchanged

\* transcribeAudio settles, either way generateMultimodalResponse is awaited.
TurnTranscribed(i, ok) ==
  /\ i \in 1..Len(live.turns)
  /\ live.turns[i].pc = "transcribe"
  /\ live' = [live EXCEPT !.turns[i].pc = "generate"]
  /\ liveObs' = [liveObs EXCEPT !.requests = @ + 1, !.event = "turn.transcribed"]
  /\ LiveOthersUnchanged

\* generateMultimodalResponse settles: the message is emitted and spoken, or
\* the catch block runs.
TurnGenerated(i, ok) ==
  /\ i \in 1..Len(live.turns)
  /\ live.turns[i].pc = "generate"
  /\ LET done == [live EXCEPT !.turns[i].pc = "done"]
         fallback == live.turns[i].fallback
     IN  live' = Effects(IF ok THEN SpeakResponse(done, fallback)
                         ELSE GenerationFailed(done, fallback))
  /\ liveObs' = [liveObs EXCEPT !.messages = IF ok THEN @ + 1 ELSE @,
                                !.spoken = IF ok THEN @ + 1 ELSE @,
                                !.event = IF ok THEN "turn.generated" ELSE "turn.failed"]
  /\ LiveOthersUnchanged

\* utterance.onend
UtteranceEnded(k) ==
  /\ k \in 1..Len(live.utterances)
  /\ live.utterances[k].state = "queued"
  /\ LET ended == [live EXCEPT !.utterances[k].state = "ended", !.status = "listening"]
     IN  live' = Effects(StartIfNative(ended, live.utterances[k].fallback))
  /\ liveObs' = [liveObs EXCEPT !.event = "utterance.onend"]
  /\ LiveOthersUnchanged

InitLive ==
  /\ IdleChunker
  /\ IdleStore
  /\ IdleChat
  /\ IdleSources
  /\ IdleVoice
  /\ \E hasApi \in BOOLEAN : live = IdleLiveState(hasApi)
  /\ liveObs = NoLiveObs

NextLive ==
  \/ OpenLive
  \/ CloseLive
  \/ \E ok \in BOOLEAN : ScreenSettles(ok)
  \/ \E ok \in BOOLEAN : AudioSettles(ok)
  \/ ScreenShareEnded
  \/ RecognitionResult
  \/ \E error \in LiveRecognizerErrors : RecognitionError(error)
  \/ RecognitionEnded
  \/ RestartTimerFires
  \/ VadSpeech
  \/ VadSilence
  \/ SilenceTimerFires
  \/ \E i \in 1..MaxCommits : TurnWaited(i)
  \/ \E i \in 1..MaxCommits, ok \in BOOLEAN : TurnTranscribed(i, ok)
  \/ \E i \in 1..MaxCommits, ok \in BOOLEAN : TurnGenerated(i, ok)
  \/ \E k \in 1..MaxCommits : UtteranceEnded(k)

SpecLive == InitLive /\ [][NextLive]_vars

-----------------------------------------------------------------------------
(* Claims about vector search (SpecSearch)                                 *)

ResultCount == IF lastSearch.called THEN Len(lastSearch.results) ELSE 0
ResultSim(i) == lastSearch.results[i].similarity

\* The rows of rag_chunks a result refers to.
ResultChunks ==
  IF lastSearch.called
  THEN {c \in rag_chunks : \E i \in 1..ResultCount : lastSearch.results[i].chunk.id = c.id}
  ELSE {}

DocById(id) == CHOOSE d \in documents : d.id = id

\* C1: every chunk a vector search with filterScope s returns belongs to a
\* document whose scope is 'global' or s; a chunk of a document scoped to
\* another chat id is never returned.
C1_SearchScoped ==
  lastSearch.called =>
    \A i \in 1..ResultCount :
      \E c \in rag_chunks :
        /\ c.id = lastSearch.results[i].chunk.id
        /\ c.document_id \in DocIds(documents)
        /\ DocById(c.document_id).scope \in {Global, lastSearch.filterScope}

\* A search for c1 that returned something while a chunk of a c2 document was
\* similar enough to be returned.
C1_Witness ==
  /\ lastSearch.called
  /\ lastSearch.filterScope = "c1"
  /\ ResultCount > 0
  /\ \E c \in rag_chunks :
       /\ DocById(c.document_id).scope = "c2"
       /\ Similarity(c.embedding, lastSearch.queryEmbedding) > MATCH_THRESHOLD

\* C5: a vector search returns at most topK results (5 when topK is not
\* given), ordered by non-increasing similarity.
C5_TopKSorted ==
  lastSearch.called =>
    /\ ResultCount <= (IF lastSearch.topK = NoTopK THEN 5 ELSE lastSearch.topK)
    /\ \A i, j \in 1..ResultCount : i < j => ResultSim(i) >= ResultSim(j)

\* A search without topK over a store with more than five eligible chunks,
\* returning five of two different similarities.
C5_Witness ==
  /\ lastSearch.called
  /\ lastSearch.topK = NoTopK
  /\ ResultCount = 5
  /\ ResultSim(1) > ResultSim(5)
  /\ Cardinality({c \in rag_chunks :
        /\ Similarity(c.embedding, lastSearch.queryEmbedding) > MATCH_THRESHOLD
        /\ DocById(c.document_id).scope \in {Global, lastSearch.filterScope}}) > 5

\* The store of the refund-policy scenario: one document of the chat with one
\* chunk of similarity 0.82 and one global document with one chunk of 0.40.
C6_Scenario ==
  /\ lastSearch.called
  /\ lastSearch.filterScope \in ChatIds
  /\ \E own, glob \in documents :
       /\ documents = {own, glob}
       /\ own.scope = lastSearch.filterScope
       /\ glob.scope = Global
       /\ \E co, cg \in rag_chunks :
            /\ rag_chunks = {co, cg}
            /\ co.document_id = own.id
            /\ cg.document_id = glob.id
            /\ Similarity(co.embedding, lastSearch.queryEmbedding) = 82
            /\ Similarity(cg.embedding, lastSearch.queryEmbedding) = 40

\* C6: no search result has similarity <= 0.5; in the scenario the search
\* returns only the chat's 0.82 chunk and exactly one source is cited.
C6_AboveThreshold ==
  /\ lastSearch.called => \A i \in 1..ResultCount : ResultSim(i) > 50
  /\ C6_Scenario =>
       /\ ResultCount = 1
       /\ ResultSim(1) = 82
       /\ \A c \in ResultChunks : DocById(c.document_id).scope = lastSearch.filterScope
       /\ Len(Sources(lastSearch.results)) = 1

C6_Witness == C6_Scenario /\ ResultCount = 1

-----------------------------------------------------------------------------
(* Claims about the store under ingestion and deletion (SpecStore)         *)

PersistedCount(docId) == Cardinality(ChunksOf(rag_chunks, docId))

\* C7: after a document is deleted no chunk with its document_id remains,
\* and no later vector search returns a chunk of it.
C7_DeleteCascades ==
  /\ \A c \in rag_chunks : c.document_id \notin deleted
  /\ lastSearch.called =>
       \A i \in 1..ResultCount :
         \E c \in rag_chunks :
           c.id = lastSearch.results[i].chunk.id /\ c.document_id \notin deleted

\* A file of two chunks was ingested, its document deleted, and a later search
\* returned chunks (of another document).
C7_Witness ==
  /\ lastSearch.called
  /\ ResultCount > 0
  /\ \E i \in 1..Len(upFiles) :
       /\ outcome[i] = "success"
       /\ upFiles[i].name = "a.pdf"
       /\ fileDocId[i] \in deleted

\* No attempt is between its first and its last step.
BetweenAttempts == upPc \in {"idle", "parse", "done"}

\* C8 as claimed: after any ingestion attempt, successful or failed at any
\* step, every document record has chunkCount = the chunks persisted for it.
C8_ChunkCountAlways ==
  BetweenAttempts => \A d \in documents : d.chunk_count = PersistedCount(d.id)

\* C8 amended: a document whose ingestion succeeded has chunkCount = the
\* chunks persisted for it; a record left by an attempt that failed when its
\* chunks were saved has no chunk at all.
C8_ChunkCountOnSuccess ==
  /\ BetweenAttempts =>
       \A d \in documents : PersistedCount(d.id) \in {0, d.chunk_count}
  /\ \A i \in 1..Len(upFiles) :
       fileDocId[i] \in DocIds(documents) =>
         /\ outcome[i] = "success" =>
              DocById(fileDocId[i]).chunk_count = PersistedCount(fileDocId[i])
         /\ outcome[i] = "failure" => PersistedCount(fileDocId[i]) = 0

\* One file saved with its two chunks and one left with a record and no chunk.
C8_Witness ==
  /\ upPc = "done"
  /\ \E i, k \in 1..Len(upFiles) :
       /\ outcome[i] = "success"
       /\ fileDocId[i] \in DocIds(documents)
       /\ DocById(fileDocId[i]).chunk_count = 2
       /\ PersistedCount(fileDocId[i]) = 2
       /\ outcome[k] = "failure"
       /\ fileDocId[k] \in DocIds(documents)
       /\ DocById(fileDocId[k]).chunk_count > 0

\* C9: every file of a batch is attempted exactly once whatever happened to
\* the files before it; at the end successes + failures = n, and a file is
\* a success only if its record and all its chunks were persisted.
C9_BatchCounts ==
  /\ \A i \in 1..Len(upFiles) : attempts[i] <= 1
  /\ upPc = "done" =>
       /\ \A i \in 1..Len(upFiles) : attempts[i] = 1
       /\ successes + failures = Len(upFiles)
       /\ successes = Cardinality({i \in 1..Len(upFiles) : outcome[i] = "success"})
       /\ \A i \in 1..Len(upFiles) :
            outcome[i] = "success" =>
              \/ fileDocId[i] \in deleted
              \/ /\ fileDocId[i] \in DocIds(documents)
                 /\ PersistedCount(fileDocId[i])
                      = Len(chunkText(upFiles[i].pages, upFiles[i].name))

\* A batch of two ended: the first file failed, the second was saved.
C9_Witness ==
  /\ upPc = "done"
  /\ Len(upFiles) = 2
  /\ outcome[1] = "failure"
  /\ outcome[2] = "success"
  /\ PersistedCount(fileDocId[2]) = 2

-----------------------------------------------------------------------------
(* Claims about the chunker (SpecChunker)                                  *)

\* The character at 0-based position pos of a text.
RECURSIVE CharAt(_, _)
CharAt(t, pos) == IF pos < Head(t).n THEN Head(t).c ELSE CharAt(Tail(t), pos - Head(t).n)

\* The window starts of a page of length len: 0, 450, 900, ... below len.
WindowStarts(len) == {i \in 0..(len - 1) : i % 450 = 0}
WindowLen(len, i) == (IF i + 500 < len THEN i + 500 ELSE len) - i

\* The chunks emitted for page k, in order.
ChunksOfPage(k) == SelectSeq(ckOut, LAMBDA c : c.pageNumber = ckPages[k].page)

\* c is the window of text that starts at i.
IsWindow(c, text, i) ==
  /\ TLen(c.text) = WindowLen(TLen(text), i)
  /\ \A p \in 0..(TLen(c.text) - 1) : CharAt(c.text, p) = CharAt(text, i + p)

\* The chunks of page k are exactly the windows that satisfy Kept, in order.
EmitsExactly(k, Kept(_, _)) ==
  LET text == ckPages[k].text
      kept == {i \in WindowStarts(TLen(text)) : Kept(text, i)}
      out == ChunksOfPage(k)
  IN  /\ Len(out) = Cardinality(kept)
      /\ \A i \in kept :
           IsWindow(out[Cardinality({h \in kept : h <= i})], text, i)

TrimmedOver50(text, i) == TLen(TTrim(TSlice(text, i, i + 500))) > 50
LengthOver50(text, i) == WindowLen(TLen(text), i) > 50

\* C10 as claimed: a window is emitted if and only if its trimmed length
\* exceeds 50, so every chunk has trimmed length > 50 and length <= 500.
C10_TrimmedWindows ==
  ckPc = "done" =>
    /\ \A k \in 1..Len(ckPages) : EmitsExactly(k, TrimmedOver50)
    /\ \A n \in 1..Len(ckOut) :
         TLen(TTrim(ckOut[n].text)) > 50 /\ TLen(ckOut[n].text) <= 500

\* C10 amended: a window is emitted if and only if its length, untrimmed,
\* exceeds 50, so every chunk has length > 50 and <= 500.
C10_LongWindows ==
  ckPc = "done" =>
    /\ \A k \in 1..Len(ckPages) : EmitsExactly(k, LengthOver50)
    /\ \A n \in 1..Len(ckOut) :
         TLen(ckOut[n].text) > 50 /\ TLen(ckOut[n].text) <= 500

\* A page of 950 characters: the windows at 0 and 450 are emitted, the window
\* at 900, 50 characters long, is not.
C10_Witness ==
  /\ ckPc = "done"
  /\ Len(ckPages) = 1
  /\ TLen(ckPages[1].text) = 950
  /\ Len(ckOut) = 2

\* The last k characters of a text.
TLast(t, k) == TSlice(t, TLen(t) - k, TLen(t))

\* C11: for every page longer than 500 characters, any two consecutive chunks
\* emitted for that page share exactly 50 characters: the earlier one is the
\* window 450 positions before the later one, and its last 50 characters are
\* the first 50 characters of the later one.
C11_ConsecutiveOverlap ==
  ckPc = "done" =>
    \A k \in 1..Len(ckPages) :
      TLen(ckPages[k].text) > 500 =>
        LET out == ChunksOfPage(k)
        IN  \A n \in 1..(Len(out) - 1) :
              /\ TLast(out[n].text, 50) = TTake(out[n + 1].text, 50)
              /\ IsWindow(out[n], ckPages[k].text, (n - 1) * 450)
              /\ IsWindow(out[n + 1], ckPages[k].text, n * 450)

\* A page of 500 "a" and 500 spaces: three chunks, the first all "a", the
\* second 50 "a" and 450 spaces.
C11_Witness ==
  /\ ckPc = "done"
  /\ Len(ckPages) = 1
  /\ ckPages[1].text = <<[c |-> "a", n |-> 500], [c |-> Space, n |-> 500]>>
  /\ Len(ckOut) = 3
  /\ ckOut[2].text = <<[c |-> "a", n |-> 50], [c |-> Space, n |-> 450]>>

-----------------------------------------------------------------------------
(* Claims about a chat send (SpecChat)                                     *)

\* The messages of the chat the running (or last) send belongs to.
SendMessages == chats[sdChatId].messages
ModelMessages == {SendMessages[k] : k \in {i \in 1..Len(SendMessages) : SendMessages[i].id = sdModelMsgId}}
ScopeResolved == sdPc \in {"search", "summarize", "fetch", "stream", "saveModel"}
SearchDone == sdPc \in {"summarize", "fetch", "stream", "saveModel"}
OwnerScopes(chunkId) ==
  {d.scope : d \in {x \in documents : \E c \in rag_chunks : c.id = chunkId /\ c.document_id = x.id}}
ContextScopes == UNION {OwnerScopes(sdContext[k].id) : k \in 1..Len(sdContext)}
CitedFromContext(m) ==
  m.sources.defined =>
    \A i \in 1..Len(m.sources.list) :
      \E k \in 1..Len(sdContext) :
        /\ m.sources.list[i].title = sdContext[k].sourceFileName
        /\ m.sources.list[i].page = PageOrZero(sdContext[k].pageNumber)
HelloIncrements ==
  <<Txt("H", 1), Txt("H", 1) \o Txt("e", 1), Txt("H", 1) \o Txt("e", 1) \o Txt("l", 2),
    Txt("H", 1) \o Txt("e", 1) \o Txt("l", 2) \o Txt("o", 1)>>
Finalized == sdPc = "saveModel" \/ (sdPc = "idle" /\ sdResult = "ok")

\* C2: a send in a chat of type global searches with filterScope 'global',
\* and its context chunks and cited sources come only from global-scoped
\* documents even when chat-scoped documents exist; a send in a dedicated
\* chat searches with that chat's own id.
C2_ScopeFromChatType ==
  /\ (ScopeResolved /\ sdTarget.type = "global") => sdScope = Global
  /\ (ScopeResolved /\ sdTarget.type = "dedicated") => sdScope = sdTarget.id
  /\ (SearchDone /\ sdTarget.type = "global") =>
       /\ ContextScopes \subseteq {Global}
       /\ \A m \in ModelMessages : CitedFromContext(m)

C2_Witness ==
  /\ sdPc = "fetch"
  /\ sdSummary = "none"
  /\ sdTarget.type = "global"
  /\ \E d \in documents : d.scope = sdTarget.id
  /\ sdContext # <<>>
  /\ \E m \in ModelMessages : m.sources.defined /\ m.sources.list # <<>>

\* C3: once the error handler of a failed send has run, the chat holds no
\* message with isStreaming = true (the in-flight model message is removed).
C3_NoStreamingAfterError ==
  (sdPc = "idle" /\ sdResult = "error") =>
    \A k \in 1..Len(SendMessages) : ~Truthy(SendMessages[k].isStreaming)

\* C4: after the k-th increment delivered to the stream callback the model
\* message's text is exactly that increment, the finalized text is the last
\* increment, and for H, He, Hell, Hello the final text is Hello.
C4_IncrementReplaces ==
  /\ (sdPc = "stream" /\ delivered # <<>>) =>
       \A m \in ModelMessages : m.text = delivered[Len(delivered)]
  /\ (Finalized /\ delivered # <<>>) =>
       /\ ModelMessages # {}
       /\ \A m \in ModelMessages : m.text = delivered[Len(delivered)]
  /\ (Finalized /\ delivered = HelloIncrements) =>
       \A m \in ModelMessages : m.text = HelloIncrements[4]

C4_Witness ==
  /\ sdPc = "idle"
  /\ sdResult = "ok"
  /\ delivered = HelloIncrements
  /\ \E m \in ModelMessages : m.text = HelloIncrements[4] /\ m.isStreaming = "false"

-----------------------------------------------------------------------------
(* Claims about the history sent to the generator (SpecChat)               *)

\* The history of the running (or last) send has been settled.
HistoryReady == sdPc \in {"fetch", "stream", "saveModel"}
PriorMessages == sdTarget.messages
SendTotalChars == HistoryChars(PriorMessages \o <<sdUserMsg>>) + ContextTextLen(sdContext)
IsSummaryMessage(m) ==
  /\ m.role = "model"
  /\ TTake(m.text, 46) = Txt("#", 46)
  /\ TDrop(m.text, 46) \in {Txt("s", 30), Txt("u", 42)}

\* The last four prior messages, as role and text, in their order.
LastFourPrior ==
  [k \in 1..4 |-> [role |-> PriorMessages[Len(PriorMessages) - 4 + k].role,
                   text |-> PriorMessages[Len(PriorMessages) - 4 + k].text]]
SummaryThenLastFour ==
  /\ Len(PriorMessages) >= 4
  /\ Len(sdHistory) = 5
  /\ IsSummaryMessage(sdHistory[1])
  /\ SubSeq(sdHistory, 2, 5) = LastFourPrior
PriorUnchanged ==
  /\ Len(sdHistory) = Len(PriorMessages)
  /\ \A k \in 1..Len(PriorMessages) :
       /\ sdHistory[k].role = PriorMessages[k].role
       /\ sdHistory[k].text = PriorMessages[k].text

\* C12 as claimed: whenever the history plus the context text exceeds 20000
\* characters, the history sent is one summary message followed by the last
\* four prior messages.
C12_OverLimitSummarized ==
  (HistoryReady /\ SendTotalChars > 20000) => SummaryThenLastFour

\* C12 amended: over 20000 characters, a summarization request is made
\* exactly when there are more than four prior messages; when it succeeds the
\* history sent is one summary message followed by the last four prior
\* messages, verbatim and in order; with at most four prior messages the
\* prior messages are sent unchanged.
C12_OverLimitSummarizedWhenOlder ==
  /\ (sdPc = "summarize") <=> (sdSummary = "pending")
  /\ (sdPc = "summarize") => (SendTotalChars > 20000 /\ Len(PriorMessages) > 4)
  /\ (HistoryReady /\ SendTotalChars > 20000 /\ Len(PriorMessages) > 4) =>
       /\ sdSummary \in {"ok", "failed"}
       /\ sdSummary = "ok" => SummaryThenLastFour
  /\ (HistoryReady /\ SendTotalChars > 20000 /\ Len(PriorMessages) <= 4) =>
       (sdSummary = "none" /\ PriorUnchanged)

\* Five prior messages, over the limit, summarized.
C12_Witness ==
  /\ sdPc = "fetch"
  /\ SendTotalChars > 20000
  /\ Len(PriorMessages) = 5
  /\ sdSummary = "ok"
  /\ Len(sdHistory) = 5
  /\ sdHistory[2].text = Txt("a", 6)
  /\ sdHistory[5].text = Txt("d", 8)

\* C13: when the history plus the context text is at most 20000 characters,
\* no summarization request is made, the history sent is exactly the prior
\* messages in order, and the current query is sent separately as the message.
C13_UnderLimitIdentity ==
  /\ (sdPc = "summarize") => SendTotalChars > 20000
  /\ (HistoryReady /\ SendTotalChars <= 20000) =>
       /\ sdSummary = "none"
       /\ PriorUnchanged
       /\ sdMessage = sdUserMsg.text
       /\ sdUserMsg.id \notin {PriorMessages[k].id : k \in 1..Len(PriorMessages)}

\* Five prior messages and a total of exactly 20000 characters.
C13_Witness ==
  /\ sdPc = "fetch"
  /\ SendTotalChars = 20000
  /\ Len(PriorMessages) = 5
  /\ sdSummary = "none"
  /\ Len(sdHistory) = 5
  /\ sdMessage = Txt("q", 5)

\* C14: when the summarization request fails the original history is sent
\* unchanged, and the step that settles the request always goes on to the
\* generation request: it never ends the send.
C14_SummaryFailureFallsBack ==
  /\ [](HistoryReady /\ sdSummary = "failed" => PriorUnchanged)
  /\ [][(sdPc = "summarize" /\ sdSummary' # sdSummary) =>
          (sdPc' = "fetch" /\ sdResult' = sdResult /\ isProcessing' = isProcessing
             /\ chats' = chats)]_vars
  /\ [][(sdPc = "summarize" /\ sdPc' # "summarize") => sdPc' = "fetch"]_vars

\* The request failed and the answer was streamed all the same.
C14_Witness ==
  /\ sdSummary = "failed"
  /\ sdPc = "idle"
  /\ sdResult = "ok"
  /\ Len(sdHistory) = 5
  /\ delivered # <<>>

\* C17: when the proxy answers the streaming request with an error status
\* the send fails: the error body is never delivered to the stream callback
\* nor stored as the text of the model message.
C17_ErrorStatusRejects ==
  ~sdHttpOk =>
    /\ delivered = <<>>
    /\ sdResult # "ok"
    /\ \A k \in 1..Len(chats[sdChatId].messages) :
         chats[sdChatId].messages[k].text # ErrorBody

-----------------------------------------------------------------------------
(* Claims about chat auto-naming (SpecTitle)                               *)

\* The chats that were created without a title of the user's.
DefaultNamed == {"c1"}

\* C15: sending the first message of a chat issues exactly one
\* title-generation call, the send does not wait for it, and no later send
\* in that chat issues another one: a chat never has more than one
\* title-generation call, and it has one as soon as a message was sent in it.
C15_OneTitleCall ==
  \A c \in DefaultNamed :
    /\ titleCalls[c] <= 1
    /\ (sdChatId = c /\ sends > 0) => titleCalls[c] >= 1

-----------------------------------------------------------------------------
(* Claims about the cited sources (SpecSources)                            *)

\* The (title, page) pair of the i-th search result, a missing page as 0.
PairOf(i) ==
  <<srcResults[i].chunk.sourceFileName,
    IF srcResults[i].chunk.pageNumber = NULL_PAGE THEN 0
    ELSE srcResults[i].chunk.pageNumber>>
OutPair(k) == <<srcOut[k].title, srcOut[k].page>>
FirstIndex(pair) ==
  CHOOSE i \in 1..Len(srcResults) :
    PairOf(i) = pair /\ \A h \in 1..(i - 1) : PairOf(h) # pair

\* C16: the source list holds each distinct (title, page) pair of the search
\* results exactly once, in the order of first occurrence, a missing page
\* number reported as 0.
C16_SourcesDistinctInOrder ==
  srcPc = "done" =>
    /\ {OutPair(k) : k \in 1..Len(srcOut)} = {PairOf(i) : i \in 1..Len(srcResults)}
    /\ \A k, h \in 1..Len(srcOut) : k # h => OutPair(k) # OutPair(h)
    /\ \A k, h \in 1..Len(srcOut) :
         k < h => FirstIndex(OutPair(k)) < FirstIndex(OutPair(h))

\* a.pdf with a missing page, b.pdf page 1, a.pdf page 0: two sources.
C16_Witness ==
  /\ srcPc = "done"
  /\ Len(srcResults) = 3
  /\ PairOf(1) = <<"a.pdf", 0>>
  /\ srcResults[1].chunk.pageNumber = NULL_PAGE
  /\ PairOf(2) = <<"b.pdf", 1>>
  /\ srcResults[3].chunk.pageNumber = 0
  /\ PairOf(3) = <<"a.pdf", 0>>
  /\ srcOut = <<[title |-> "a.pdf", page |-> 0], [title |-> "b.pdf", page |-> 1]>>

-----------------------------------------------------------------------------
(* Claims about the voice input hook (SpecVoice)                           *)

\* C18: once isFallbackMode is true it never becomes false again, and no
\* startListening call made after it became true starts the native
\* recognizer: such a call constructs no recognizer and begins the fallback
\* capture instead.
C18_FallbackIsSticky ==
  /\ [][isFallbackMode => isFallbackMode']_vars
  /\ [][(isFallbackMode /\ starts' # starts)
          => /\ recognizers' = recognizers
             /\ recognitionRef' = recognitionRef
             /\ Len(captures') = Len(captures) + 1]_vars

\* A second startListening call, made with the flag already latched by a
\* recognizer error, has just begun a fallback capture; the only recognizer
\* is the one that failed.
C18_Witness ==
  /\ voEvent.h = "startListening"
  /\ voEvent.latched
  /\ isFallbackMode
  /\ hasSpeechApi
  /\ starts = 2
  /\ Len(recognizers) = 1
  /\ speechStatus = "recording"

\* The last handler that ran was the recognizer's onerror.
AfterRecognizerError == voEvent.h = "onerror"

\* The most recent fallback capture is waiting for the microphone.
CaptureJustStarted ==
  /\ captures # <<>>
  /\ captures[Len(captures)].state = "asking"

\* C19: a 'network', 'not-allowed' or 'service-not-allowed' recognizer error
\* sets isFallbackMode and starts the fallback capture in the same handler
\* (status recording); any other recognizer error moves status to error and
\* hands the error to the error callback.
C19_RecognizerErrorHandling ==
  AfterRecognizerError =>
    IF voEvent.error \in {"network", "not-allowed", "service-not-allowed"}
    THEN /\ isFallbackMode
         /\ speechStatus = "recording"
         /\ CaptureJustStarted
    ELSE /\ speechStatus = "error"
         /\ voiceErrors # <<>>
         /\ voiceErrors[Len(voiceErrors)] = voEvent.error

\* A permission error of the recognizer has just switched the hook to the
\* fallback capture.
C19_Witness ==
  /\ AfterRecognizerError
  /\ voEvent.error = "not-allowed"
  /\ isFallbackMode
  /\ speechStatus = "recording"
  /\ CaptureJustStarted
  /\ recognizers[1].state = "errored"

\* Some recognizer is running, or some recorder is recording.
SomethingCapturing ==
  \/ \E i \in 1..Len(recognizers) : recognizers[i].state = "running"
  \/ \E j \in 1..Len(captures) : captures[j].state \in {"asking", "recording"}

\* C20: whenever startListening cannot use the native recognizer (no API,
\* flag set, or the recognizer's constructor or start() throws), the fallback
\* capture is started in that same call; status is never left at listening
\* with neither a recognizer nor a recorder active.
C20_FallbackWheneverNativeUnusable ==
  /\ (voEvent.h = "startListening" /\ ~voEvent.native)
       => (speechStatus = "recording" /\ CaptureJustStarted)
  /\ speechStatus = "listening" => SomethingCapturing

\* Capture j leaves state from for state to in this step.
CaptureMoves(j, from, to) ==
  /\ j \in 1..Len(captures)
  /\ captures[j].state = from
  /\ captures'[j].state = to

NoPendingCallbacks ==
  /\ \A j \in 1..Len(captures) :
       captures[j].state \notin {"asking", "stopping", "transcribing"}
  /\ \A i \in 1..Len(recognizers) :
       recognizers[i].state \notin {"stopping", "errored"}

\* C22: after stopListening has been called and all pending callbacks have
\* run, no recorder is recording and no microphone track is live, also when
\* stopListening came before the microphone request had resolved.
C22_StopReleasesMicrophone ==
  (lastCall = "stop" /\ NoPendingCallbacks)
    => \A j \in 1..Len(captures) :
         /\ captures[j].state # "recording"
         /\ ~captures[j].trackLive

-----------------------------------------------------------------------------
(* Claims about the stream of generateRagResponse (SpecChat)               *)

\* A chunk has been read from the stream in this step and handed on.
ChunkRead ==
  /\ sdPc = "stream"
  /\ sdStream # <<>>
  /\ Len(delivered') = Len(delivered) + 1

\* The text last handed to the stream callback, empty before the first.
LastDelivered == IF delivered = <<>> THEN <<>> ELSE delivered[Len(delivered)]

\* The text of "H", "He", "Hell", "Hello" written one after the other.
HelloPrefixesJoined ==
  TConcat(TConcat(TConcat(HelloPrefixes[1], HelloPrefixes[2]), HelloPrefixes[3]),
          HelloPrefixes[4])

-----------------------------------------------------------------------------
(* Claims about the order of processRagRequest (SpecChat)                  *)

\* generateRagResponse has been called in the current run.
GenerationBegun ==
  \/ sdPc \in {"summarize", "fetch", "stream", "saveModel"}
  \/ delivered # <<>>
  \/ sdResult = "ok"

\* The current run is over.
RunOver == sends > 0 /\ sdPc = "idle"

\* The order of the calls of one run: onSourcesFound at most once, only on
\* the return of the vector search and before anything is streamed; with no
\* store neither call is made.
SourcesCallOrder ==
  /\ [](sourcesCalls <= 1 /\ searchCalls <= 1)
  /\ []((supabaseUrl /\ GenerationBegun) => (sourcesCalls = 1 /\ searchCalls = 1))
  /\ [](sourcesCalls = 1 => (searchCalls = 1 /\ sdPc \notin {"saveUser", "embed", "search"}))
  /\ [][sourcesCalls' = sourcesCalls + 1 => (sdPc = "search" /\ delivered' = <<>>)]_vars
  /\ [](~supabaseUrl => (searchCalls = 0 /\ sourcesCalls = 0 /\ sdPc # "search"))

-----------------------------------------------------------------------------
(* Claims about the order of persistence (SpecStore)                       *)

\* C30: during ingestion the document record is persisted before any of its
\* chunks, so in every reachable store state, also after a failure at any
\* step and after document deletions, every persisted chunk's document_id
\* refers to a persisted document.
C30_ChunksHaveParent ==
  /\ \A c \in rag_chunks : c.document_id \in DocIds(documents)
  /\ upPc \in {"embed", "meta", "vectors"} =>
       \A c \in rag_chunks : c.document_id # upDocId

\* A document was deleted while its vectors were being saved: the attempt
\* failed and none of its chunks was persisted, while the chunks of another
\* document are there with their parent.
C30_Witness ==
  /\ rag_chunks # {}
  /\ \A c \in rag_chunks : c.document_id \in DocIds(documents)
  /\ \E i \in 1..Len(upFiles) :
       /\ outcome[i] = "failure"
       /\ fileDocId[i] \in deleted

-----------------------------------------------------------------------------
(* Claims about the live session (SpecLive)                                *)

\* stopSession is the handler that ran last.
JustStopped == liveObs.event = "stopSession"

\* C23: immediately after stopSession, from any live-session state, status
\* is idle, every screen and microphone track is stopped, the recognizer is
\* aborted, no recorder is recording, no silence timer is pending, the
\* manual-VAD polling loop is cancelled and speech synthesis is cancelled.
C23_StopSessionReleasesAll ==
  JustStopped =>
    /\ live.status = "idle"
    /\ live.screenLive = 0
    /\ live.micLive = 0
    /\ live.recognition # "on"
    /\ live.recorder # "recording"
    /\ ~live.silenceTimer
    /\ ~live.vadLoop
    /\ \A k \in 1..Len(live.utterances) : live.utterances[k].state # "queued"

\* stopSession has been called and startSession has not been called since.
SessionStopped == ~liveObs.open /\ liveObs.sessions > 0

\* C24: after stopSession the status stays idle, no message is emitted to
\* the caller and no speech is synthesized until the next startSession, also
\* when a startSession, a turn commit or a speech synthesis was in flight
\* when stopSession was called.
C24_StoppedStaysStopped ==
  SessionStopped =>
    /\ live.status = "idle"
    /\ liveObs.messages = liveObs.atStop.messages
    /\ liveObs.spoken = liveObs.atStop.spoken

\* C25: status processing is entered only from recording: silence detected
\* (native timer or manual VAD) while status is listening, processing,
\* speaking or idle commits no turn, so each recorded turn issues exactly one
\* multimodal generation request.
C25_CommitOnlyFromRecording ==
  [][liveObs'.commits # liveObs.commits => live.status = "recording"]_vars

\* The generation request of turn i has just failed.
GenerationJustFailed(i) ==
  /\ i \in 1..Len(live.turns)
  /\ live.turns[i].pc = "generate"
  /\ live'.turns[i].pc = "done"
  /\ liveObs'.event = "turn.failed"

\* C26: if the multimodal generation request of a live turn fails, no
\* message is emitted to the caller, no speech is synthesized, and status
\* goes to listening, with the recognizer started again in native mode.
C26_GenerationFailureIsSilent ==
  [][\A i \in 1..MaxCommits :
       GenerationJustFailed(i)
         => /\ liveObs'.messages = liveObs.messages
            /\ liveObs'.spoken = liveObs.spoken
            /\ live'.utterances = live.utterances
            /\ live'.status = "listening"
            /\ (live.status = "processing" /\ ~live.turns[i].fallback
                  /\ live.recognitionRef /\ live.recognition = "off")
                 => live'.recognition = "on"]_vars

\* A native-mode turn failed at generation: nothing was emitted or spoken
\* and the session listens again with the recognizer on.
C26_Witness ==
  /\ liveObs.event = "turn.failed"
  /\ liveObs.open
  /\ liveObs.commits = 1
  /\ liveObs.requests = 1
  /\ liveObs.messages = 0
  /\ liveObs.spoken = 0
  /\ ~live.isFallbackMode
  /\ live.status = "listening"
  /\ live.recognition = "on"

\* C27: if screen-share or microphone acquisition fails during
\* startSession, the failure is fatal to the session: status does not become
\* listening and the recognizer is not started.
C27_AcquisitionFailureIsFatal ==
  (liveObs.event = "startSession.done" /\ liveObs.startFailed)
    => (live.status # "listening" /\ live.recognition # "on")

-----------------------------------------------------------------------------
(* Claims about the order of ingestion (SpecStore)                         *)

\* A batch is running and file upI is the one at hand.
BatchRunning == upPc \in {"parse", "embed", "meta", "vectors"}

\* C31: within one batch at most one file is being ingested at any time and
\* file i+1 starts only after file i has succeeded or failed; within one
\* file no embedding request is issued before chunking has finished and no
\* persistence call before the last embedding has returned.
C31_OneFileOneStepAtATime ==
  /\ BatchRunning =>
       \A k \in 1..Len(upFiles) :
         /\ attempts[k] <= 1
         /\ k < upI => (attempts[k] = 1 /\ outcome[k] # "none")
         /\ k > upI => (attempts[k] = 0 /\ outcome[k] = "none")
         /\ k = upI => outcome[k] = "none"
  /\ upPc \in {"embed", "meta", "vectors"} =>
       /\ attempts[upI] = 1
       /\ upRawChunks = chunkText(upFiles[upI].pages, upFiles[upI].name)
       /\ Len(upEmbedded) <= Len(upRawChunks)
  /\ upPc = "embed" =>
       (Len(upEmbedded) < Len(upRawChunks) /\ upDocId \notin DocIds(documents))
  /\ upPc \in {"meta", "vectors"} => Len(upEmbedded) = Len(upRawChunks)

\* The second file of a batch is being embedded, one of its two chunks
\* done, after the first file failed.
C31_Witness ==
  /\ upPc = "embed"
  /\ upI = 2
  /\ outcome[1] = "failure"
  /\ Len(upRawChunks) = 2
  /\ Len(upEmbedded) = 1

\* An embedding request of the file at hand fails in this step.
EmbeddingFails ==
  /\ upPc = "embed"
  /\ outcome'[upI] = "failure"

\* C32: if the embedding request of any chunk of a file fails, ingestion of
\* that file stops: no document record and no chunk of that file is
\* persisted, the file is counted as one failure, and the remaining chunks of
\* the file are not embedded.
C32_EmbeddingFailureAbortsFile ==
  /\ [](\A k \in 1..Len(upEmbedded) :
          IsBlank(upEmbedded[k].text) \/ upEmbedded[k].embedding # <<>>)
  /\ [][EmbeddingFails
          => /\ failures' = failures + 1
             /\ successes' = successes
             /\ documents' = documents
             /\ rag_chunks' = rag_chunks
             /\ upDocId \notin DocIds(documents')
             /\ \A c \in rag_chunks' : c.document_id # upDocId
             /\ upEmbedded' = upEmbedded
             /\ upPc' \in {"parse", "done"}]_vars
  /\ [][\A d \in DocIds(documents') \ DocIds(documents) :
          upPc = "meta" /\ d = upDocId]_vars

\* The second chunk of a file failed to embed: the batch is over with one
\* failure, one chunk embedded and nothing persisted.
C32_Witness ==
  /\ upPc = "done"
  /\ Len(upFiles) = 1
  /\ outcome[1] = "failure"
  /\ failures = 1
  /\ Len(upRawChunks) = 2
  /\ Len(upEmbedded) = 1
  /\ documents = {}
  /\ rag_chunks = {}

-----------------------------------------------------------------------------
(* Claims about coverage by the chunker (SpecChunker)                      *)

\* The spans <<from, to>> of the text of page k that the chunks emitted with
\* its page number are windows of.
SpansOfPage(k) ==
  LET text == ckPages[k].text
      out == ChunksOfPage(k)
  IN  {<<i, i + TLen(out[n].text)>> :
         <<n, i>> \in {x \in (1..Len(out)) \X WindowStarts(TLen(text)) :
                         IsWindow(out[x[1]], text, x[2])}}

\* C39: for every page longer than 50 characters, every character position
\* of the page lies in at least one emitted chunk of that page; every chunk
\* carries the number of the page it was cut from and only text of that page.
C39_PagesAreCovered ==
  ckPc = "done" =>
    /\ \A k \in 1..Len(ckPages) :
         LET spans == SpansOfPage(k)
         IN  /\ TLen(ckPages[k].text) > 50 =>
                  \A p \in 0..(TLen(ckPages[k].text) - 1) :
                    \E s \in spans : s[1] <= p /\ p < s[2]
             /\ \A n \in 1..Len(ChunksOfPage(k)) :
                  \E i \in WindowStarts(TLen(ckPages[k].text)) :
                    IsWindow(ChunksOfPage(k)[n], ckPages[k].text, i)
    /\ \A n \in 1..Len(ckOut) :
         /\ \E k \in 1..Len(ckPages) : ckOut[n].pageNumber = ckPages[k].page
         /\ ckOut[n].sourceFileName = ckFileName

\* Two pages: one of 950 characters, whose last window of 50 characters is
\* dropped and lies in the window before it, and one of 51 characters.
C39_Witness ==
  /\ ckPc = "done"
  /\ Len(ckPages) = 2
  /\ TLen(ckPages[1].text) = 950
  /\ TLen(ckPages[2].text) = 51
  /\ Len(ckOut) = 3
  /\ ckOut[2].pageNumber = 1
  /\ ckOut[3].pageNumber = 2

-----------------------------------------------------------------------------
(* Claims about the messages of a chat during a send (SpecChat)            *)

\* s is the beginning of t.
IsPrefix(s, t) == Len(s) <= Len(t) /\ SubSeq(t, 1, Len(s)) = s

\* C36: a failed send removes no message that was in the chat before the
\* send began: after the error handler has run, every earlier message of the
\* chat is still present, unchanged and in the same order.
C36_FailedSendKeepsEarlierMessages ==
  (sdPc = "idle" /\ sdResult = "error") =>
    IsPrefix(sdTarget.messages, chats[sdChatId].messages)

\* The model message of the send in the chat where it was started.
ModelMessageShown(chs) ==
  {chs[sdChatId].messages[k] :
     k \in {i \in 1..Len(chs[sdChatId].messages) :
              chs[sdChatId].messages[i].id = sdModelMsgId}}

\* C37: stream increments, sources and the finalized model message of a send
\* are applied only to the chat in which the send was started, and the
\* messages of every other chat are unchanged, even if the user switches the
\* current chat while the answer is streaming.
C37_SendStaysInItsChat ==
  /\ [][/\ \A c \in ChatIds :
             chats'[c].messages # chats[c].messages => c = sdChatId'
        /\ sdPc # "idle" => sdChatId' = sdChatId]_vars
  /\ [](sdPc = "stream" /\ delivered # <<>> =>
          \E m \in ModelMessageShown(chats) : m.text = LastDelivered)
  /\ [][sourcesCalls' = sourcesCalls + 1 /\ sdPc' # "idle" =>
          \E m \in ModelMessageShown(chats') : m.sources.defined]_vars
  /\ [](sdPc = "saveModel" \/ (sdPc = "idle" /\ sdResult = "ok") =>
          \E m \in ModelMessageShown(chats) :
            m.isStreaming = "false" /\ m.text = sdFullResponse)

\* The user has switched to the other chat while the answer streams: an
\* increment is shown in the chat of the send, more are to come, and the
\* other chat holds its greeting only.
C37_Witness ==
  /\ sdPc = "stream"
  /\ currentChatId # sdChatId
  /\ currentChatId # NoChat
  /\ delivered # <<>>
  /\ sdStream # <<>>
  /\ \E m \in ModelMessageShown(chats) : m.text = LastDelivered /\ m.sources.defined
  /\ Len(chats[currentChatId].messages) = 1

-----------------------------------------------------------------------------
(* Claims about the title of a chat (SpecTitle)                            *)

\* The titles saveEditingChat can save.
ManualTitles == {SavedTitle(editTitle) : editTitle \in EditTitles}

\* C38: a title the user saves manually for a chat is never replaced
\* afterwards by an auto-generated title: a title-generation call in flight
\* when the user renamed the chat does not overwrite the user's title,
\* neither the one shown nor the one in the store.
C38_ManualTitleIsKept ==
  [][\A c \in ChatIds :
       /\ chats[c].title \in ManualTitles => chats'[c].title \in ManualTitles
       /\ dbChatTitles[c] \in ManualTitles => dbChatTitles'[c] \in ManualTitles]_vars

-----------------------------------------------------------------------------
(* Claims about the end of the native recognizer (SpecVoiceFair)           *)

\* The recognizer in use has ended with no stopListening call since it was
\* started, no error reported and no fallback begun: it ended on its own
\* while the status was listening, and its onend handler has run.
EndedOnItsOwn ==
  /\ voEvent.h = "onend"
  /\ lastCall = "start"
  /\ recognitionRef # 0
  /\ recognizers[recognitionRef].state = "ended"
  /\ recognizers[recognitionRef].started
  /\ ~isFallbackMode
  /\ voiceErrors = <<>>

\* C40: when the native recognizer ends on its own while the status is
\* listening, the status eventually returns to idle.
C40_EndReturnsToIdle == EndedOnItsOwn ~> (speechStatus = "idle")

-----------------------------------------------------------------------------
(* Claims about the recognizer and the error channel of Live mode (SpecLive) *)

\* C33: a recognizer onend event that fires after stopSession (the
\* recognizer was aborted by the stop) never restarts the recognizer,
\* whatever the interleaving of the onend handler, its restart timer and the
\* status update: with Live mode closed, the timer set by that onend never
\* starts the recognizer.
C33_NoRestartAfterStop ==
  ~(/\ liveObs.event = "restart"
    /\ liveObs.stopEnd = "restarted"
    /\ ~liveObs.open
    /\ live.recognition = "on")

\* C34: isFallbackMode of the live session is a one-way latch: once true it
\* never becomes false, and from then on the native recognizer is never
\* started again, including by the recognizer's own onend auto-restart.
C34_FallbackLatchStopsRecognizer ==
  [][live.isFallbackMode =>
       /\ live'.isFallbackMode
       /\ live'.recognition = "on" => live.recognition = "on"]_vars

\* C35: if the screen-share acquisition fails during startSession, the
\* error channel is not null when startSession has finished, whatever the
\* outcome of the microphone acquisition that follows.
C35_ScreenShareFailureIsReported ==
  (liveObs.event = "startSession.done" /\ liveObs.screenFailed) =>
    live.error # "none"

====
